---- MODULE Spec2Model ----
(***************************************************************************)
(* OpenSRF python runtime: the forking controller and its workers          *)
(* (osrf/server.py), the client session engine (osrf/ses.py,               *)
(* osrf/stack.py), the application dispatcher (osrf/app.py), the HTTP      *)
(* translator (osrf/http_translator.py) and the JSON codec (osrf/json.py,  *)
(* osrf/net_obj.py).  Each subsystem has its own specification over the    *)
(* shared variables; the variables of the other subsystems stay parked.    *)
(***************************************************************************)
EXTENDS Integers, Sequences, FiniteSets, TLC

VARIABLES
    \* ---- controller (server.py Controller) ----
    ctlPc,          \* where the main loop is: "reap", "check", "recv", "wait1", "wait2"; "exited" once an
                    \* exception has left it; after cleanup "gone", "raised" or "blocked"
    num_children,   \* Controller.num_children
    idle_list,      \* Controller.idle_list, children named by pid
    active_list,    \* Controller.active_list
    pid_map,        \* keys of Controller.pid_map
    statusSock,     \* pid records written to write_status, not yet read
    dataSock,       \* per child: messages written to its data socket, not yet read
    proc,           \* per pid: the OS process: "none", "waiting", "busy", "zombie", "reaped"
    childReqs,      \* per child: Child.num_requests
    nextPid,        \* the pid the next fork returns
    ret_child,      \* check_status(wait=True): the child kept for the caller, 0 for None
    lastOp,         \* the last controller step, for the claims' witnesses
    \* ---- client session engine (ses.py, stack.py, net.py) ----
    sesState,       \* per thread: ClientSession.state
    next_id,        \* per thread: ClientSession.next_id
    requests,       \* per thread and rid: the Request (queue, complete, reset_timeout)
    inbox,          \* NetworkMessages that have reached the transport, oldest first
    arrived,        \* how many NetworkMessages have arrived so far
    rPc,            \* Request.recv: "idle", "pre", "loop", "waiting", "woke"
    rReq,           \* the request recv was called on: <<thread, rid>>
    rTimeout,       \* recv's local timeout; -1 stands for any negative value
    rOrig,          \* recv's orig_timeout
    rWaited,        \* ticks spent in the current session.wait
    rSince,         \* ticks waited since the budget was last set to orig_timeout
    rTotal,         \* ticks waited since recv was called
    rResets,        \* how often this call has restored the budget
    rConts,         \* CONTINUEs for rReq handled since the call began, or pending in its flag
    lastRet,        \* what the last recv returned, and in which state
    \* ---- application dispatcher (app.py) ----
    methods,        \* Application.methods: api_name -> Method
    appPc,          \* handle_request: "idle" or "handler" (inside the method's handler)
    appCall,        \* the REQUEST being handled: api_name and threadTrace
    response_list,  \* ServerRequest.response_list
    appSent,        \* what the session has sent for this REQUEST: a list of message lists
    responded,      \* the values the handler has passed to respond(), in call order
    appOutcome,     \* how handle_request ended: "none", "notfound", "returned", "raised"
    \* ---- HTTP translator (http_translator.py) ----
    cache,          \* the session cache: thread -> {ip, jid}, or NoEntry
    bus,            \* NetworkMessages waiting on the translator's network handle
    busCount,       \* how many have arrived since the HTTP request began
    hPc,            \* "idle", "recv" (in the reply loop of process) or "done"
    hReq,           \* the HTTP request: kind of body, headers, remote host
    hStatus,        \* what process() returned, 0 while it runs
    hSent,          \* the NetworkMessages process() has sent
    hMessages,      \* self.messages
    hComplete,      \* self.complete
    hFirstWrite,    \* first_write
    hWritten,       \* the writes to the client, in order
    hFrom,          \* headers_out[X-OpenSRF-from]
    hReplies,       \* the bodies of the NetworkMessages the reply loop has received, in order
    \* ---- JSON codec (json.py, net_obj.py) ----
    jPc,            \* "value", "encoded", "decoded", or "wrapped" after default alone
    jValue,         \* the value handed to to_json
    jWire,          \* the JSON that to_json produced
    jOut,           \* what to_object made of it
    \* ---- connection management of one client session (ses.py, stack.py) ----
    remote_id,      \* ClientSession.remote_id
    cPc,            \* "idle", or "connecting" inside the wait loop of connect()
    cTimeout,       \* connect's local timeout; -1 stands for any negative value
    cWaited,        \* ticks spent in the current session.wait of connect
    cBus,           \* NetworkMessages for the session's thread that reached the transport
    cArrived,       \* how many of them have arrived so far
    cSent,          \* the messages the session has sent, oldest first
    cInflight,      \* CONNECTs sent that no server has answered yet
    cDrone,         \* the sender of the STATUS 200 OK handled last, "none" before
    cLastFrom,      \* the sender of the NetworkMessage handled last, "none" before
    cGot200,        \* a STATUS 200 OK was handled since connect() was called
    cLast,          \* the last call and how it ended
    \* ---- a worker's keepalive loop and its client (server.py, stack.py) ----
    wState,         \* the worker's session.state
    kPc,            \* Child.run: "read" (data socket), "keepalive" (in session.wait), "done"
    kWaited,        \* ticks spent in the current session.wait(keepalive)
    kIn,            \* the client's messages waiting on the worker's network handle
    kArrived,       \* how many messages the worker has been given so far
    kOut,           \* the bodies the worker has sent on the session's thread, oldest first
    kRead,          \* how many of them the client session has handled
    kGot,           \* the type of the message the last wait handled, "none" if it timed out
    \* ---- the controller's routers and its shutdown (server.py) ----
    routers,        \* Controller.routers: the targets registered with, in order
    regSent,        \* per router target, the register commands sent to it
    unregSent,      \* per router target, the unregister commands sent to it
    killSent,       \* the pids cleanup() has sent SIGKILL
    \* ---- the bytes on one worker's data socket (server.py) ----
    fPc,            \* "recv" (controller waits for a message), "written", "reading", "read"
    fData,          \* the data of the message being dispatched: to_xml()
    fWire,          \* the bytes in the data socket the worker has not read yet
    fGot,           \* Child.run's data: the bytes the worker has read so far
    fLeft,          \* the bytes write_child's sendall has not passed to the socket yet
    \* ---- one worker's main loop and its session cache (server.py Child, ses.py) ----
    session_cache,  \* the keys of Session.session_cache in the worker
    num_requests,   \* Child.num_requests
    runPc,          \* Child.run: "read" (data socket), "keepalive" (in session.wait), "exited"
    runSes,         \* the session being served: its thread and state; thread 0 between sessions
    runWaited,      \* ticks spent in the current session.wait(keepalive)
    runReports,     \* the status reports the worker has written
    runHook,        \* child_exit() has run
    runServed,       \* the sessions served, oldest first: thread and how each ended
    \* ---- the network handles across fork (server.py, net.py) ----
    fkPc,           \* where Controller.run is: boot, spawn, loop
    fkHandle,       \* THREAD_SESSIONS of each process: the connection its handle stands for
    fkConn,         \* each connection to the jabber server: unused, open or closed
    fkStage,        \* each worker process: none, forked, running, exited
    fkDisc,         \* who called disconnect() on which connection
    fkGot           \* messages the controller has received on its listener connection

ctlVars == <<ctlPc, num_children, idle_list, active_list, pid_map, statusSock,
             dataSock, proc, childReqs, nextPid, ret_child, lastOp>>

sesVars == <<sesState, next_id, requests, inbox, arrived, rPc, rReq, rTimeout, rOrig,
             rWaited, rSince, rTotal, rResets, rConts, lastRet>>

appVars == <<methods, appPc, appCall, response_list, appSent, responded, appOutcome>>

httpVars == <<cache, bus, busCount, hPc, hReq, hStatus, hSent, hMessages, hComplete,
              hFirstWrite, hWritten, hFrom, hReplies>>

jsonVars == <<jPc, jValue, jWire, jOut>>

connVars == <<remote_id, cPc, cTimeout, cWaited, cBus, cArrived, cSent, cInflight,
              cDrone, cLastFrom, cGot200, cLast>>

keepVars == <<wState, kPc, kWaited, kIn, kArrived, kOut, kRead, kGot>>

shutVars == <<routers, regSent, unregSent, killSent>>

frameVars == <<fPc, fData, fWire, fGot, fLeft>>

runVars == <<session_cache, num_requests, runPc, runSes, runWaited, runReports, runHook, runServed>>

forkVars == <<fkPc, fkHandle, fkConn, fkStage, fkDisc, fkGot>>

vars == <<ctlVars, sesVars, appVars, httpVars, jsonVars, connVars, keepVars, shutVars,
          frameVars,
          runVars,
          forkVars>>

\* what the steps of one subsystem leave alone
ctlOthers == <<sesVars, appVars, httpVars, jsonVars, connVars, keepVars, shutVars, frameVars,
    runVars,
    forkVars>>
sesOthers == <<ctlVars, appVars, httpVars, jsonVars, connVars, keepVars, shutVars, frameVars,
    runVars,
    forkVars>>
appOthers == <<ctlVars, sesVars, httpVars, jsonVars, connVars, keepVars, shutVars, frameVars,
    runVars,
    forkVars>>
httpOthers == <<ctlVars, sesVars, appVars, jsonVars, connVars, keepVars, shutVars, frameVars,
    runVars,
    forkVars>>
jsonOthers == <<ctlVars, sesVars, appVars, httpVars, connVars, keepVars, shutVars, frameVars,
    runVars,
    forkVars>>
\* the connection steps work on the session of thread 1: its state, its
\* requests and its next_id; they leave the recv machinery and the rest alone
connOthers == <<ctlVars, appVars, httpVars, jsonVars, keepVars, shutVars, frameVars,
    runVars,
    forkVars, inbox, arrived, rPc, rReq,
                rTimeout, rOrig, rWaited, rSince, rTotal, rResets, rConts, lastRet>>
\* the keepalive steps work on the worker and on the client session of thread 1
keepOthers == <<ctlVars, appVars, httpVars, jsonVars, connVars, shutVars, frameVars,
    runVars,
    forkVars, next_id,
                inbox, arrived, rPc,
                rReq, rTimeout, rOrig, rWaited, rSince, rTotal, rResets, rConts, lastRet>>
\* the shutdown steps work on the controller
shutOthers == <<sesVars, appVars, httpVars, jsonVars, connVars, keepVars, frameVars,
    runVars,
    forkVars>>
frameOthers == <<ctlVars, sesVars, appVars, httpVars, jsonVars, connVars, keepVars, shutVars,
    runVars,
    forkVars>>
forkOthers == <<ctlVars, sesVars, appVars, httpVars, jsonVars, connVars, keepVars,
    shutVars, frameVars, runVars>>
runOthers == <<ctlVars, sesVars, appVars, httpVars, jsonVars, connVars, keepVars,
    shutVars, frameVars,
    forkVars>>

\* ------------------------------------------------------------------------
\* Bounds and configuration
\* ------------------------------------------------------------------------
MaxPid == 4          \* forks over the whole run
MaxPending == 1      \* messages waiting unread in one data socket

min_children == 1
max_children == 2
max_requests == 2

Pids == 1..MaxPid

\* ------------------------------------------------------------------------
\* Sequence helpers
\* ------------------------------------------------------------------------
Range(s) == {s[i] : i \in 1..Len(s)}

\* list.index(x): position of the first occurrence, 0 when absent (ValueError)
IndexOf(s, x) ==
    IF x \in Range(s) THEN CHOOSE i \in 1..Len(s) : s[i] = x /\ \A j \in 1..(i-1) : s[j] /= x
    ELSE 0

\* list.pop(i)
PopAt(s, i) == [j \in 1..(Len(s)-1) |-> IF j < i THEN s[j] ELSE s[j+1]]

\* ------------------------------------------------------------------------
\* Controller (osrf/server.py).  The operators below work on a record c of
\* the controller's fields: nc (num_children), idle, active, pmap, proc, np
\* (next pid), exc (TRUE once an exception has left the operation).
\* ------------------------------------------------------------------------
CtlRec ==
    [nc |-> num_children, idle |-> idle_list, active |-> active_list,
     pmap |-> pid_map, proc |-> proc, np |-> nextPid, exc |-> FALSE]

Live(pr) == {p \in Pids : pr[p] \in {"waiting", "busy"}}
Zombies(pr) == {p \in Pids : pr[p] = "zombie"}

\* os.kill(pid, SIGKILL): OSError when no such process exists any more
KillRaises(pr, pid) == pr[pid] \in {"none", "reaped"}

\* The index cleanup_child uses to pop the child from idle_list when it is
\* not in active_list: the code looks the child up in active_list again.
CleanupIdleIndex(c, pid) == IndexOf(c.active, pid)

\* Controller.cleanup_child(pid, kill)
cleanup_child(c, pid, kill) ==
    IF kill /\ KillRaises(c.proc, pid) THEN [c EXCEPT !.exc = TRUE]
    ELSE
      LET pr == IF kill THEN [c.proc EXCEPT ![pid] = "zombie"] ELSE c.proc
          inActive == pid \in c.pmap /\ IndexOf(c.active, pid) > 0
          act == IF inActive THEN PopAt(c.active, IndexOf(c.active, pid)) ELSE c.active
          idleIx == IF pid \in c.pmap THEN CleanupIdleIndex(c, pid) ELSE 0
          idl == IF ~inActive /\ idleIx > 0 /\ idleIx <= Len(c.idle)
                 THEN PopAt(c.idle, idleIx) ELSE c.idle
      IN  IF pid \in c.pmap
          THEN [c EXCEPT !.proc = pr, !.active = act, !.idle = idl, !.pmap = c.pmap \ {pid}]
          ELSE [c EXCEPT !.proc = pr, !.exc = TRUE]     \* del pid_map[pid]: KeyError

\* Controller.spawn_child(active), parent side; fork fails when no pid is left
spawn_child(c, active) ==
    IF c.np > MaxPid THEN [c EXCEPT !.exc = TRUE]
    ELSE [c EXCEPT !.nc = c.nc + 1,
                   !.pmap = c.pmap \cup {c.np},
                   !.active = IF active THEN Append(c.active, c.np) ELSE c.active,
                   !.idle = IF active THEN c.idle ELSE Append(c.idle, c.np),
                   !.proc = [c.proc EXCEPT ![c.np] = "waiting"],
                   !.np = c.np + 1]

\* Controller.spawn_children()
RECURSIVE spawn_children(_)
spawn_children(c) ==
    IF c.nc < min_children /\ ~c.exc THEN spawn_children(spawn_child(c, FALSE)) ELSE c

\* Controller.reap_children(done = False): waitpid until it returns 0 (then
\* spawn_children) or raises OSError (no child process left, or fork failed:
\* both are swallowed by "except OSError: return").
RECURSIVE reap_children(_)
reap_children(c) ==
    IF Zombies(c.proc) /= {}
    THEN LET pid == CHOOSE p \in Zombies(c.proc) : \A q \in Zombies(c.proc) : p <= q
             c1 == [c EXCEPT !.proc = [c.proc EXCEPT ![pid] = "reaped"], !.nc = c.nc - 1]
             c2 == cleanup_child(c1, pid, FALSE)
         IN  IF c2.exc THEN c2 ELSE reap_children(c2)
    ELSE IF Live(c.proc) = {} THEN c
    ELSE [spawn_children(c) EXCEPT !.exc = FALSE]

\* faulty variant: the record frees the oldest active child, whoever reported
StatusToIdle_oldest(c, pid) ==
    IF c.active = <<>> THEN [c EXCEPT !.exc = TRUE]
    ELSE [c EXCEPT !.active = Tail(c.active), !.idle = Append(c.idle, Head(c.active))]

\* One status record read by check_status, not the one kept as ret_child:
\* the child moves from active_list to idle_list.
StatusToIdle(c, pid) ==
    IF pid \notin c.pmap \/ IndexOf(c.active, pid) = 0 THEN [c EXCEPT !.exc = TRUE]
    ELSE [c EXCEPT !.active = PopAt(c.active, IndexOf(c.active, pid)),
                   !.idle = Append(c.idle, pid)]

\* The non-blocking part of check_status: read records until EAGAIN
RECURSIVE drain_status(_, _)
drain_status(c, sock) ==
    IF sock = <<>> \/ c.exc THEN c
    ELSE drain_status(StatusToIdle(c, Head(sock)), Tail(sock))

\* Assign the controller's fields from a record; an exception that leaves the
\* main loop ends it (run's "except Exception" and "finally: cleanup()").
CtlAssign(c, pc) ==
    /\ num_children' = c.nc
    /\ idle_list' = c.idle
    /\ active_list' = c.active
    /\ pid_map' = c.pmap
    /\ proc' = c.proc
    /\ nextPid' = c.np
    /\ ctlPc' = IF c.exc THEN "exited" ELSE pc

\* Controller.write_child(child, data): sendall, and on failure
\* cleanup_child(child.pid, True).  ok is whether sendall succeeded.
write_child(c, child, ok) ==
    IF ok THEN c ELSE cleanup_child(c, child, TRUE)

WriteOk(child, ok) == ok => dataSock[child] < MaxPending

DataAfterWrite(child, ok) ==
    IF ok THEN [dataSock EXCEPT ![child] = @ + 1] ELSE dataSock

\* faulty variant: a child is spawned whenever no child is idle
MaySpawn_always(nc) == TRUE

\* main loop: "elif self.num_children < self.max_children"
MaySpawn(nc) == nc < max_children

\* ---- the controller's steps ----

\* Controller.__init__ leaves everything empty; run() forks min_children
\* workers before it enters the main loop.
CtlInit ==
    /\ ctlPc = "start"
    /\ num_children = 0
    /\ idle_list = <<>>
    /\ active_list = <<>>
    /\ pid_map = {}
    /\ statusSock = <<>>
    /\ dataSock = [p \in Pids |-> 0]
    /\ proc = [p \in Pids |-> "none"]
    /\ childReqs = [p \in Pids |-> 0]
    /\ nextPid = 1
    /\ ret_child = 0
    /\ lastOp = "init"

CtlStart ==
    /\ UNCHANGED ctlOthers
    /\ ctlPc = "start"
    /\ CtlAssign(spawn_children(CtlRec), "reap")
    /\ lastOp' = "start"
    /\ UNCHANGED <<statusSock, dataSock, childReqs, ret_child>>

\* main loop: self.reap_children()
CtlReap ==
    /\ UNCHANGED ctlOthers
    /\ ctlPc = "reap"
    /\ CtlAssign(reap_children(CtlRec), "check")
    /\ lastOp' = IF Zombies(proc) /= {} THEN "reaped" ELSE "reap"
    /\ UNCHANGED <<statusSock, dataSock, childReqs, ret_child>>

\* main loop: self.check_status()
CtlCheckStatus ==
    /\ UNCHANGED ctlOthers
    /\ ctlPc = "check"
    /\ CtlAssign(drain_status(CtlRec, statusSock), "recv")
    /\ statusSock' = <<>>
    /\ lastOp' = IF statusSock /= <<>> THEN "status" ELSE "check"
    /\ UNCHANGED <<dataSock, childReqs, ret_child>>

\* main loop: a message arrives and goes to a child popped from idle_list
CtlDispatchIdle ==
    /\ UNCHANGED ctlOthers
    /\ ctlPc = "recv"
    /\ idle_list /= <<>>
    /\ LET child == idle_list[Len(idle_list)]
           c == [CtlRec EXCEPT !.idle = SubSeq(idle_list, 1, Len(idle_list) - 1),
                               !.active = Append(active_list, child)]
       IN  \E ok \in BOOLEAN :
             /\ WriteOk(child, ok)
             /\ CtlAssign(write_child(c, child, ok), "reap")
             /\ dataSock' = DataAfterWrite(child, ok)
             /\ lastOp' = IF ok THEN "dispatch" ELSE "writefail"
    /\ UNCHANGED <<statusSock, childReqs, ret_child>>

\* main loop: no idle child, room for one more: spawn_child(True)
CtlDispatchSpawn ==
    /\ UNCHANGED ctlOthers
    /\ ctlPc = "recv"
    /\ idle_list = <<>>
    /\ MaySpawn(num_children)
    /\ nextPid <= MaxPid
    /\ LET child == nextPid
           c == spawn_child(CtlRec, TRUE)
       IN  \E ok \in BOOLEAN :
             /\ WriteOk(child, ok)
             /\ CtlAssign(write_child(c, child, ok), "reap")
             /\ dataSock' = DataAfterWrite(child, ok)
             /\ lastOp' = IF ok THEN "spawn" ELSE "writefail"
    /\ UNCHANGED <<statusSock, childReqs, ret_child>>

\* main loop: no idle child and no room: check_status(True) is entered
CtlDispatchWait ==
    /\ UNCHANGED ctlOthers
    /\ ctlPc = "recv"
    /\ idle_list = <<>>
    /\ ~MaySpawn(num_children)
    /\ ctlPc' = "wait1"
    /\ lastOp' = "wait"
    /\ UNCHANGED <<num_children, idle_list, active_list, pid_map, statusSock,
                   dataSock, proc, childReqs, nextPid, ret_child>>

\* check_status(True), first pass of its loop: the blocking recv returns a
\* record, the finally clause finds ret_child still None and leaves the
\* socket blocking, then ret_child is set.
CtlWaitFirst ==
    /\ UNCHANGED ctlOthers
    /\ ctlPc = "wait1"
    /\ statusSock /= <<>>
    /\ LET pid == Head(statusSock)
       IN  /\ ret_child' = IF pid \in pid_map THEN pid ELSE 0
           /\ ctlPc' = IF pid \in pid_map THEN "wait2" ELSE "exited"
    /\ statusSock' = Tail(statusSock)
    /\ lastOp' = "wait"
    /\ UNCHANGED <<num_children, idle_list, active_list, pid_map,
                   dataSock, proc, childReqs, nextPid>>

\* check_status(True), the following passes: the socket is still blocking for
\* the next recv; once that one has returned the finally clause makes the
\* socket non-blocking and the loop reads until EAGAIN.  Every record read
\* here moves its child to idle_list.  Then the main loop writes the message
\* to ret_child.
CtlWaitRest ==
    /\ UNCHANGED ctlOthers
    /\ ctlPc = "wait2"
    /\ statusSock /= <<>>
    /\ LET c == drain_status(CtlRec, statusSock)
       IN  \E ok \in BOOLEAN :
             /\ WriteOk(ret_child, ok)
             /\ IF c.exc THEN CtlAssign(c, "reap") /\ dataSock' = dataSock
                ELSE /\ CtlAssign(write_child(c, ret_child, ok), "reap")
                     /\ dataSock' = DataAfterWrite(ret_child, ok)
             /\ lastOp' = IF c.exc THEN "wait" ELSE IF ok THEN "dispatch" ELSE "writefail"
    /\ statusSock' = <<>>
    /\ ret_child' = 0
    /\ UNCHANGED <<childReqs>>

\* ---- the workers (Child.run) ----

\* the blocking read of the data socket returns a message
ChildTake(p) ==
    /\ UNCHANGED ctlOthers
    /\ proc[p] = "waiting"
    /\ dataSock[p] > 0
    /\ proc' = [proc EXCEPT ![p] = "busy"]
    /\ dataSock' = [dataSock EXCEPT ![p] = @ - 1]
    /\ UNCHANGED <<ctlPc, num_children, idle_list, active_list, pid_map, statusSock,
                   childReqs, nextPid, ret_child, lastOp>>

\* the session is done: num_requests += 1, then either the loop ends (the
\* process exits without a status report) or send_status()
ChildDone(p) ==
    /\ UNCHANGED ctlOthers
    /\ proc[p] = "busy"
    /\ childReqs' = [childReqs EXCEPT ![p] = @ + 1]
    /\ IF childReqs[p] + 1 = max_requests
       THEN proc' = [proc EXCEPT ![p] = "zombie"] /\ statusSock' = statusSock
       ELSE proc' = [proc EXCEPT ![p] = "waiting"] /\ statusSock' = Append(statusSock, p)
    /\ UNCHANGED <<ctlPc, num_children, idle_list, active_list, pid_map,
                   dataSock, nextPid, ret_child, lastOp>>

\* a worker process dies on its own (a crash, a signal from outside)
ChildDie(p) ==
    /\ UNCHANGED ctlOthers
    /\ proc[p] \in {"waiting", "busy"}
    /\ proc' = [proc EXCEPT ![p] = "zombie"]
    /\ UNCHANGED <<ctlPc, num_children, idle_list, active_list, pid_map, statusSock,
                   dataSock, childReqs, nextPid, ret_child, lastOp>>

CtlNext ==
    \/ CtlStart
    \/ CtlReap
    \/ CtlCheckStatus
    \/ CtlDispatchIdle
    \/ CtlDispatchSpawn
    \/ CtlDispatchWait
    \/ CtlWaitFirst
    \/ CtlWaitRest
    \/ \E p \in Pids : ChildTake(p)
    \/ \E p \in Pids : ChildDone(p)
    \/ \E p \in Pids : ChildDie(p)

\* ------------------------------------------------------------------------
\* Claims about the controller
\* ------------------------------------------------------------------------
\* The controller is between two steps of its main loop
Quiescent == ctlPc \in {"reap", "check", "recv", "wait1", "wait2"}

\* C1: at every quiescent point of the controller the number of children in
\* idle_list plus the number in active_list equals num_children.
C1_WorkerAccounting ==
    Quiescent => Len(idle_list) + Len(active_list) = num_children

\* C2: at every quiescent point every tracked child is in exactly one of
\* idle_list and active_list, once, and the keys of pid_map are exactly the
\* pids of the children in the two lists.
C2_Membership ==
    Quiescent =>
        /\ Range(idle_list) \cap Range(active_list) = {}
        /\ Cardinality(Range(idle_list)) = Len(idle_list)
        /\ Cardinality(Range(active_list)) = Len(active_list)
        /\ pid_map = Range(idle_list) \cup Range(active_list)

\* ------------------------------------------------------------------------
\* Client session engine (osrf/ses.py, osrf/stack.py, osrf/net.py)
\* ------------------------------------------------------------------------
MaxSes == 2          \* client sessions in the session cache
MaxReq == 2          \* requests one session makes
MaxArrive == 2       \* NetworkMessages that arrive over the run
MaxTimeout == 2      \* largest timeout passed to recv, in ticks
MaxInbox == 1        \* NetworkMessages waiting unread in the transport

Threads == 1..MaxSes
UnknownThread == 0   \* a thread that is not in Session.session_cache
Rids == 0..(MaxReq - 1)

OSRF_STATUS_CONTINUE == 100
OSRF_STATUS_OK == 200
OSRF_STATUS_COMPLETE == 205
OSRF_STATUS_NOTFOUND == 404
OSRF_STATUS_TIMEOUT == 408
OSRF_STATUS_INTERNALSERVERERROR == 500
OSRF_STATUS_OVERLOADED == 503   \* a code handle_client has no branch for

StatusCodes ==
    {OSRF_STATUS_CONTINUE, OSRF_STATUS_OK, OSRF_STATUS_COMPLETE, OSRF_STATUS_NOTFOUND,
     OSRF_STATUS_TIMEOUT, OSRF_STATUS_INTERNALSERVERERROR, OSRF_STATUS_OVERLOADED}

\* Request.__init__
NoRequest ==
    [exists |-> FALSE, queue |-> <<>>, complete |-> FALSE, reset_timeout |-> FALSE]
NewRequest == [NoRequest EXCEPT !.exists = TRUE]

\* osrfMessage and NetworkMessage, the fields the client reads
ResultMsg(r, c) == [type |-> "RESULT", trace |-> r, code |-> OSRF_STATUS_OK, content |-> c]
StatusMsg(r, code) == [type |-> "STATUS", trace |-> r, code |-> code, content |-> 0]
Envelope(T, body) == [thread |-> T, body |-> body]

\* The record the message layer works on
SesRec == [requests |-> requests, state |-> sesState, exc |-> "none"]

\* ClientSession.find_request(rid) found the request
find_request(st, T, r) == r \in Rids /\ st.requests[T][r].exists

\* Request.push_response(content)
push_response(req, content) ==
    [req EXCEPT !.queue = Append(req.queue, content)]

\* faulty variant: the payload goes to the session's first request, whatever the threadTrace
push_response_queue_first(st, T, m) ==
    IF find_request(st, T, 0)
    THEN [st EXCEPT !.requests[T][0] = push_response(@, m.content)]
    ELSE st

\* ClientSession.push_response_queue(message)
push_response_queue(st, T, m) ==
    IF find_request(st, T, m.trace)
    THEN [st EXCEPT !.requests[T][m.trace] = push_response(@, m.content)]
    ELSE st

\* stack.handle_client(session, message)
handle_client(st, T, m) ==
    IF m.type = "RESULT" THEN push_response_queue(st, T, m)
    ELSE IF m.type /= "STATUS" THEN st
    ELSE IF m.code = OSRF_STATUS_COMPLETE THEN
        IF find_request(st, T, m.trace)
        THEN [st EXCEPT !.requests[T][m.trace].complete = TRUE] ELSE st
    ELSE IF m.code = OSRF_STATUS_OK THEN [st EXCEPT !.state[T] = "CONNECTED"]
    ELSE IF m.code = OSRF_STATUS_CONTINUE THEN
        IF find_request(st, T, m.trace)
        THEN [st EXCEPT !.requests[T][m.trace].reset_timeout = TRUE] ELSE st
    ELSE IF m.code = OSRF_STATUS_TIMEOUT THEN [st EXCEPT !.state[T] = "DISCONNECTED"]
    ELSE IF m.code = OSRF_STATUS_NOTFOUND
        THEN [st EXCEPT !.state[T] = "DISCONNECTED", !.exc = "service"]
    ELSE IF m.code = OSRF_STATUS_INTERNALSERVERERROR THEN [st EXCEPT !.exc = "service"]
    ELSE [st EXCEPT !.exc = "protocol"]

\* Session.find_or_create(thread) returned a session of the session cache
\* (a ClientSession); otherwise a new ServerSession, whose handle_server
\* ignores RESULT and STATUS.
IsClientThread(T) == T \in Threads

\* stack.handle_message(session, message)
handle_message(st, T, m) ==
    IF IsClientThread(T) THEN handle_client(st, T, m) ELSE st

\* stack.push(net_msg): the loop over the bundled messages; an exception ends it
RECURSIVE push_messages(_, _, _)
push_messages(st, T, body) ==
    IF body = <<>> \/ st.exc /= "none" THEN st
    ELSE push_messages(handle_message(st, T, Head(body)), T, Tail(body))

push(st, env) == push_messages(st, env.thread, env.body)

\* The messages of a body that push hands to handle_message: all of them up
\* to and including the first one that raises
RECURSIVE Handled(_, _, _)
Handled(st, T, body) ==
    IF body = <<>> THEN <<>>
    ELSE LET st1 == handle_message(st, T, Head(body))
         IN  IF st1.exc /= "none" THEN <<Head(body)>>
             ELSE <<Head(body)>> \o Handled(st1, T, Tail(body))

\* how many of the handled messages are CONTINUEs for request <<T, r>>
RECURSIVE CountContinues(_, _)
CountContinues(msgs, r) ==
    IF msgs = <<>> THEN 0
    ELSE (IF Head(msgs).type = "STATUS" /\ Head(msgs).code = OSRF_STATUS_CONTINUE
             /\ Head(msgs).trace = r THEN 1 ELSE 0) + CountContinues(Tail(msgs), r)

ContinuesFor(env, req) ==
    IF env.thread = req[1] /\ find_request(SesRec, req[1], req[2])
    THEN CountContinues(Handled(SesRec, env.thread, env.body), req[2]) ELSE 0

\* lastRet: kind is "value", "null", "service" or "protocol" (an exception);
\* empty, complete and spent describe the state recv returned in
NoReturn ==
    [kind |-> "none", req |-> <<0, 0>>, value |-> 0, empty |-> TRUE, complete |-> FALSE,
     spent |-> FALSE, orig |-> 0]

SesInit ==
    /\ sesState = [T \in Threads |-> "DISCONNECTED"]
    /\ next_id = [T \in Threads |-> 0]
    /\ requests = [T \in Threads |-> [r \in Rids |-> NoRequest]]
    /\ inbox = <<>>
    /\ arrived = 0
    /\ rPc = "idle"
    /\ rReq = <<0, 0>>
    /\ rTimeout = 0
    /\ rOrig = 0
    /\ rWaited = 0
    /\ rSince = 0
    /\ rTotal = 0
    /\ rResets = 0
    /\ rConts = 0
    /\ lastRet = NoReturn

\* ---- the environment: the bus delivers a NetworkMessage ----
\* codes whose handling reads the message's threadTrace, and the others
RequestCodes ==
    {OSRF_STATUS_CONTINUE, OSRF_STATUS_COMPLETE, OSRF_STATUS_NOTFOUND,
     OSRF_STATUS_INTERNALSERVERERROR}
SessionCodes == StatusCodes \ RequestCodes

EnvelopeBodies(T, c) ==
    IF T = UnknownThread
    THEN {<<ResultMsg(0, c)>>, <<StatusMsg(0, OSRF_STATUS_COMPLETE)>>}
    ELSE {<<ResultMsg(r, c)>> : r \in Rids}
         \cup {<<ResultMsg(r, c), StatusMsg(r, OSRF_STATUS_COMPLETE)>> : r \in Rids}
         \cup {<<StatusMsg(r, code)>> : r \in Rids, code \in RequestCodes}
         \cup {<<StatusMsg(0, code)>> : code \in SessionCodes}
         \cup {<<StatusMsg(r, OSRF_STATUS_INTERNALSERVERERROR), ResultMsg(r2, c)>> :
                 <<r, r2>> \in {p \in Rids \X Rids : p[1] /= p[2]}}

NetArrive ==
    /\ UNCHANGED sesOthers
    /\ arrived < MaxArrive
    /\ Len(inbox) < MaxInbox
    /\ \E T \in Threads \cup {UnknownThread} :
         \E body \in EnvelopeBodies(T, arrived + 1) :
            inbox' = Append(inbox, Envelope(T, body))
    /\ arrived' = arrived + 1
    /\ UNCHANGED <<sesState, next_id, requests, rPc, rReq, rTimeout, rOrig, rWaited,
                   rSince, rTotal, rResets, rConts, lastRet>>

\* ---- ClientSession.request(): a new Request under the next id ----
SesRequest(T) ==
    /\ UNCHANGED sesOthers
    /\ rPc = "idle"
    /\ next_id[T] < MaxReq
    /\ requests' = [requests EXCEPT ![T][next_id[T]] = NewRequest]
    /\ next_id' = [next_id EXCEPT ![T] = @ + 1]
    /\ UNCHANGED <<sesState, inbox, arrived, rPc, rReq, rTimeout, rOrig, rWaited,
                   rSince, rTotal, rResets, rConts, lastRet>>

\* ---- Request.recv(timeout) ----
\* Network.recv pops one NetworkMessage and hands it to stack.push; an
\* exception of handle_client leaves recv.
\* recv has returned or raised: its locals are gone
RecvIdle ==
    /\ rPc' = "idle"
    /\ rReq' = <<0, 0>>
    /\ rTimeout' = 0
    /\ rOrig' = 0
    /\ rWaited' = 0
    /\ rSince' = 0
    /\ rTotal' = 0
    /\ rResets' = 0
    /\ rConts' = 0

ProcessHead(pcAfter) ==
    LET st == push(SesRec, Head(inbox))
    IN  /\ requests' = st.requests
        /\ sesState' = st.state
        /\ inbox' = Tail(inbox)
        /\ IF st.exc = "none"
           THEN /\ rPc' = pcAfter
                /\ lastRet' = lastRet
                /\ rConts' = rConts + ContinuesFor(Head(inbox), rReq)
                /\ UNCHANGED <<rReq, rTimeout, rOrig, rWaited, rSince, rTotal, rResets>>
           ELSE /\ RecvIdle
                /\ lastRet' = [NoReturn EXCEPT !.kind = st.exc, !.req = rReq]

RecvCall(T, r, t) ==
    /\ UNCHANGED sesOthers
    /\ rPc = "idle"
    /\ requests[T][r].exists
    /\ rPc' = "pre"
    /\ rReq' = <<T, r>>
    /\ rTimeout' = t
    /\ rOrig' = t
    /\ rWaited' = 0
    /\ rSince' = 0
    /\ rTotal' = 0
    /\ rResets' = 0
    /\ rConts' = IF requests[T][r].reset_timeout THEN 1 ELSE 0
    /\ lastRet' = NoReturn
    /\ UNCHANGED <<sesState, next_id, requests, inbox, arrived>>

\* self.session.wait(0)
RecvPre ==
    /\ UNCHANGED sesOthers
    /\ rPc = "pre"
    /\ IF inbox /= <<>> THEN ProcessHead("loop")
       ELSE /\ rPc' = "loop"
            /\ UNCHANGED <<requests, sesState, inbox, lastRet, rReq, rTimeout, rOrig,
                           rWaited, rSince, rTotal, rResets, rConts>>
    /\ UNCHANGED <<next_id, arrived>>

\* the loop condition of recv
RecvWaits(req, timeout) ==
    ~req.complete /\ timeout >= 0 /\ Len(req.queue) = 0

\* what recv returns once the loop has ended: the oldest payload, or None
RecvPops(req) == Len(req.queue) > 0
\* faulty variant: queue.pop() takes the newest payload
RecvValue_newest(req) == req.queue[Len(req.queue)]
RecvValue(req) == req.queue[1]
RecvRest(req) == Tail(req.queue)

RecvLoop ==
    /\ UNCHANGED sesOthers
    /\ rPc = "loop"
    /\ LET T == rReq[1]
           r == rReq[2]
           req == requests[T][r]
       IN  IF RecvWaits(req, rTimeout)
           THEN /\ rPc' = "waiting"
                /\ rWaited' = 0
                /\ UNCHANGED <<requests, lastRet, rReq, rTimeout, rOrig, rSince, rTotal,
                               rResets, rConts>>
           ELSE /\ RecvIdle
                /\ lastRet' = [kind |-> IF RecvPops(req) THEN "value" ELSE "null",
                               req |-> rReq,
                               value |-> IF RecvPops(req) THEN RecvValue(req) ELSE 0,
                               empty |-> Len(req.queue) = 0,
                               complete |-> req.complete,
                               spent |-> rTimeout < 0 /\ rSince >= rOrig,
                               orig |-> rOrig]
                /\ IF RecvPops(req)
                   THEN requests' = [requests EXCEPT ![T][r].queue = RecvRest(req)]
                   ELSE UNCHANGED requests
    /\ UNCHANGED <<sesState, next_id, inbox, arrived>>

\* one tick passes inside self.session.wait(timeout) with nothing to read
WaitTick ==
    /\ UNCHANGED sesOthers
    /\ rPc = "waiting"
    /\ inbox = <<>>
    /\ rWaited < rTimeout
    /\ rWaited' = rWaited + 1
    /\ rSince' = rSince + 1
    /\ rTotal' = rTotal + 1
    /\ UNCHANGED <<sesState, next_id, requests, inbox, arrived, rPc, rReq, rTimeout,
                   rOrig, rResets, rConts, lastRet>>

\* session.wait returns because a NetworkMessage was there to handle
WaitMessage ==
    /\ UNCHANGED sesOthers
    /\ rPc = "waiting"
    /\ inbox /= <<>>
    /\ ProcessHead("woke")
    /\ UNCHANGED <<next_id, arrived>>

\* session.wait returns because its timeout ran out: more than rTimeout has
\* elapsed, written as one more than rTimeout
WaitTimeout ==
    /\ UNCHANGED sesOthers
    /\ rPc = "waiting"
    /\ inbox = <<>>
    /\ rWaited = rTimeout
    /\ rWaited' = rTimeout + 1
    /\ rPc' = "woke"
    /\ UNCHANGED <<sesState, next_id, requests, inbox, arrived, rReq, rTimeout, rOrig,
                   rSince, rTotal, rResets, rConts, lastRet>>

\* faulty variant: the budget is given up after the first wait
TimeoutLeft_none(timeout, elapsed) == -1
\* faulty variant: the time waited is not taken off the budget
TimeoutLeft_all(timeout, elapsed) == IF elapsed > timeout THEN -1 ELSE timeout

\* timeout -= time.time() - s
TimeoutLeft(timeout, elapsed) == IF timeout - elapsed < 0 THEN -1 ELSE timeout - elapsed

\* if self.reset_timeout: the flag is cleared and timeout = orig_timeout
RestoresBudget(req) == req.reset_timeout

RecvWoke ==
    /\ UNCHANGED sesOthers
    /\ rPc = "woke"
    /\ LET T == rReq[1]
           r == rReq[2]
           req == requests[T][r]
       IN  IF RestoresBudget(req)
           THEN /\ requests' = [requests EXCEPT ![T][r].reset_timeout = FALSE]
                /\ rTimeout' = rOrig
                /\ rSince' = 0
                /\ rResets' = rResets + 1
           ELSE /\ rTimeout' = TimeoutLeft(rTimeout, rWaited)
                /\ UNCHANGED <<requests, rSince, rResets>>
    /\ rPc' = "loop"
    /\ UNCHANGED <<sesState, next_id, inbox, arrived, rReq, rOrig, rWaited, rTotal,
                   rConts, lastRet>>

SesNext ==
    \/ NetArrive
    \/ \E T \in Threads : SesRequest(T)
    \/ \E T \in Threads, r \in Rids, t \in 0..MaxTimeout : RecvCall(T, r, t)
    \/ RecvPre
    \/ RecvLoop
    \/ WaitTick
    \/ WaitMessage
    \/ WaitTimeout
    \/ RecvWoke

\* ------------------------------------------------------------------------
\* Claims about Request.recv and the client message layer
\* ------------------------------------------------------------------------
IsPrefix(s, t) == Len(s) <= Len(t) /\ SubSeq(t, 1, Len(s)) = s

\* the step in which recv leaves its loop and returns
RecvReturns == rPc = "loop" /\ rPc' = "idle"

\* C3: recv returns the queued payloads oldest first, also when complete is
\* already true, and returns null only with an empty queue; payloads are
\* queued at the tail, so every payload queued so far has been returned when
\* recv returns null.
C3_CompletionOrdering ==
    [][ /\ RecvReturns =>
            LET req == requests[rReq[1]][rReq[2]]
            IN  IF Len(req.queue) > 0
                THEN /\ lastRet'.kind = "value"
                     /\ lastRet'.value = req.queue[1]
                     /\ requests' = [requests EXCEPT ![rReq[1]][rReq[2]].queue = Tail(req.queue)]
                ELSE /\ lastRet'.kind = "null"
                     /\ requests' = requests
        /\ ~RecvReturns =>
            \A T \in Threads, r \in Rids :
                IsPrefix(requests[T][r].queue, requests'[T][r].queue)
      ]_vars

\* recv has returned the older of two queued payloads of a request that was
\* already complete; the newer one is still queued
C3_Witness ==
    /\ lastRet.kind = "value"
    /\ lastRet.complete
    /\ lastRet.value = 1
    /\ requests[lastRet.req[1]][lastRet.req[2]].queue = <<2>>

\* C4: recv returns null only with an empty queue and either complete true
\* or the whole budget elapsed since it was last set.
C4_NullOnlyWhenDone ==
    lastRet.kind = "null" => lastRet.empty /\ (lastRet.complete \/ lastRet.spent)

C4_Witness ==
    lastRet.kind = "null" /\ ~lastRet.complete /\ lastRet.spent /\ lastRet.orig = MaxTimeout

\* the messages of an envelope up to and including the first error status
\* (404, 500 or an unknown code), which ends the handling of the envelope
IsErrorStatus(m) ==
    m.type = "STATUS" /\ m.code \notin {OSRF_STATUS_COMPLETE, OSRF_STATUS_OK,
                                       OSRF_STATUS_CONTINUE, OSRF_STATUS_TIMEOUT}
RECURSIVE UpToFirstError(_)
UpToFirstError(body) ==
    IF body = <<>> THEN <<>>
    ELSE IF IsErrorStatus(Head(body)) THEN <<Head(body)>>
    ELSE <<Head(body)>> \o UpToFirstError(Tail(body))

RECURSIVE ResultsFor(_, _)
ResultsFor(msgs, r) ==
    IF msgs = <<>> THEN <<>>
    ELSE (IF Head(msgs).type = "RESULT" /\ Head(msgs).trace = r
          THEN <<Head(msgs).content>> ELSE <<>>) \o ResultsFor(Tail(msgs), r)

HasStatus(msgs, r, code) ==
    \E i \in 1..Len(msgs) : msgs[i].type = "STATUS" /\ msgs[i].trace = r /\ msgs[i].code = code

C6_ContinueOnce ==
    (rPc /= "idle" /\ rConts >= 1) => rTotal <= 2 * rOrig

\* C6 as the code has it: every CONTINUE restores the budget to t, so recv
\* never waits more than t after the last restore, the restores are at most
\* the CONTINUEs received, and k restores allow a total wait of (k+1)t.
C6_ContinueExtension ==
    rPc /= "idle" =>
        /\ rSince <= rOrig
        /\ rResets <= rConts
        /\ rTotal <= (rResets + 1) * rOrig

\* two CONTINUEs have restored the budget and recv has waited more than 2t
C6_Witness ==
    rPc /= "idle" /\ rResets = 2 /\ rTotal > 2 * rOrig

\* ------------------------------------------------------------------------
\* Application dispatcher (app.py)
\* ------------------------------------------------------------------------
MaxResponds == 2

\* An api_name is a registered base name, or that name with '.atomic' appended
BaseNames == {"echo", "time"}
ApiNames == BaseNames \X BOOLEAN
ApiName(base) == <<base, FALSE>>
AtomicTwin(base) == <<base, TRUE>>

\* values a handler responds with or returns; None is what a handler without
\* a return statement returns
None == 0
RespValues == 1..MaxResponds

\* Method.__init__
NoMethod == [registered |-> FALSE, stream |-> FALSE, atomic |-> FALSE]
Method(stream, atomic) == [registered |-> TRUE, stream |-> stream, atomic |-> atomic]

\* faulty variant: the twin is registered without atomic = 1
register_method_plain(reg, base, stream, atomic) ==
    LET reg1 == [reg EXCEPT ![ApiName(base)] = Method(stream, atomic)]
    IN  IF stream
        THEN [reg1 EXCEPT ![AtomicTwin(base)] = Method(stream, atomic)]
        ELSE reg1

\* Application.register_method(api_name=base, stream=, atomic=)
register_method(reg, base, stream, atomic) ==
    LET reg1 == [reg EXCEPT ![ApiName(base)] = Method(stream, atomic)]
    IN  IF stream
        THEN [reg1 EXCEPT ![AtomicTwin(base)] = Method(stream, TRUE)]
        ELSE reg1

\* ServerRequest as handle_request uses it: the method's atomic flag, the
\* buffer and what went out
AppReq == [atomic |-> methods[appCall.name].atomic, list |-> response_list, sent |-> appSent]

\* ServerRequest.respond(value)
respond(req, trace, v) ==
    IF req.atomic
    THEN [req EXCEPT !.list = Append(@, v)]
    ELSE [req EXCEPT !.sent = Append(@, <<ResultMsg(trace, v)>>)]

\* ServerRequest.respond_complete(value)
respond_complete(req, trace, v) ==
    IF req.atomic
    THEN LET all == IF v /= None THEN Append(req.list, v) ELSE req.list
         IN  [req EXCEPT !.list = all,
                         !.sent = Append(@, <<ResultMsg(trace, all),
                                              StatusMsg(trace, OSRF_STATUS_COMPLETE)>>)]
    ELSE IF v /= None
    THEN [req EXCEPT !.sent = Append(@, <<ResultMsg(trace, v),
                                          StatusMsg(trace, OSRF_STATUS_COMPLETE)>>)]
    ELSE [req EXCEPT !.sent = Append(@, <<StatusMsg(trace, OSRF_STATUS_COMPLETE)>>)]

\* faulty variant: every name is taken for a registered method
MethodFound_any(reg, name) == TRUE

\* handle_request: "method = Application.methods.get(method_name)",
\* "if method is None"
MethodFound(reg, name) == reg[name].registered

\* faulty variant: handle_request does not return after the STATUS 500 and
\* goes on to respond_complete(None)
after_raise_complete(sent, trace) ==
    sent \o << <<StatusMsg(trace, OSRF_STATUS_INTERNALSERVERERROR)>>,
               <<StatusMsg(trace, OSRF_STATUS_COMPLETE)>> >>

\* handle_request, the except clause: send_status(threadTrace, 500), return
after_raise(sent, trace) ==
    Append(sent, <<StatusMsg(trace, OSRF_STATUS_INTERNALSERVERERROR)>>)

\* apps/example.py reverse(request, message): the values it hands to
\* request.respond, from index idx down to the first character
RECURSIVE reverse_from(_, _)
reverse_from(message, idx) ==
    IF idx >= 1 THEN <<message[idx]>> \o reverse_from(message, idx - 1) ELSE <<>>

reverse(message) == reverse_from(message, Len(message))

AppInit ==
    /\ methods = [n \in ApiNames |-> NoMethod]
    /\ appPc = "idle"
    /\ appCall = [name |-> ApiName("echo"), trace |-> 0]
    /\ response_list = <<>>
    /\ appSent = <<>>
    /\ responded = <<>>
    /\ appOutcome = "none"

\* Application.register_method, called while no request is being handled
AppRegister(base, stream, atomic) ==
    /\ UNCHANGED appOthers
    /\ appPc = "idle"
    /\ methods' = register_method(methods, base, stream, atomic)
    /\ UNCHANGED <<appPc, appCall, response_list, appSent, responded, appOutcome>>

\* Application.handle_request up to the call of the handler
AppHandleRequest(name, trace) ==
    /\ UNCHANGED appOthers
    /\ appPc = "idle"
    /\ appCall' = [name |-> name, trace |-> trace]
    /\ response_list' = <<>>
    /\ responded' = <<>>
    /\ IF ~MethodFound(methods, name)
       THEN /\ appSent' = << <<StatusMsg(trace, OSRF_STATUS_NOTFOUND)>> >>
            /\ appOutcome' = "notfound"
            /\ appPc' = "idle"
       ELSE /\ appSent' = <<>>
            /\ appOutcome' = "none"
            /\ appPc' = "handler"
    /\ UNCHANGED methods

\* the handler calls request.respond(v)
HandlerRespond(v) ==
    /\ UNCHANGED appOthers
    /\ appPc = "handler"
    /\ Len(responded) < MaxResponds
    /\ LET req == respond(AppReq, appCall.trace, v)
       IN  /\ response_list' = req.list
           /\ appSent' = req.sent
    /\ responded' = Append(responded, v)
    /\ UNCHANGED <<methods, appPc, appCall, appOutcome>>

\* the handler returns ret: handle_request calls respond_complete(ret)
HandlerReturn(ret) ==
    /\ UNCHANGED appOthers
    /\ appPc = "handler"
    /\ LET req == respond_complete(AppReq, appCall.trace, ret)
       IN  /\ response_list' = req.list
           /\ appSent' = req.sent
    /\ appOutcome' = "returned"
    /\ appPc' = "idle"
    /\ UNCHANGED <<methods, appCall, responded>>

\* the handler raises: handle_request sends STATUS 500 and returns
HandlerRaise ==
    /\ UNCHANGED appOthers
    /\ appPc = "handler"
    /\ appSent' = after_raise(appSent, appCall.trace)
    /\ appOutcome' = "raised"
    /\ appPc' = "idle"
    /\ UNCHANGED <<methods, appCall, response_list, responded>>

AppNext ==
    \/ \E base \in BaseNames, stream \in BOOLEAN, atomic \in BOOLEAN :
           AppRegister(base, stream, atomic)
    \/ \E name \in ApiNames, trace \in Rids : AppHandleRequest(name, trace)
    \/ \E v \in RespValues : HandlerRespond(v)
    \/ \E ret \in {None} \cup RespValues : HandlerReturn(ret)
    \/ HandlerRaise

\* ------------------------------------------------------------------------
\* Claims about the application dispatcher
\* ------------------------------------------------------------------------
\* the REQUEST in hand names the '.atomic' twin of a method registered with stream
AtomicCall ==
    /\ appCall.name[2]
    /\ methods[appCall.name].registered
    /\ methods[appCall.name].stream

AppAnswered == appPc = "idle" /\ appOutcome /= "none"

\* C7 as claimed: every call of an '.atomic' twin is answered with one RESULT
\* holding the respond() values in call order and one COMPLETE, nothing else
C7_AtomicAlways ==
    (AtomicCall /\ AppAnswered) =>
        appSent = << <<ResultMsg(appCall.trace, responded),
                       StatusMsg(appCall.trace, OSRF_STATUS_COMPLETE)>> >>

\* C7 as the code has it: nothing is sent while the handler of an '.atomic'
\* twin runs; when it returns, one RESULT with the respond() values in call
\* order (and the handler's return value last, if it returned one) and one
\* COMPLETE are sent; when it raises, only STATUS 500 is sent and the
\* buffered values are dropped.
C7_AtomicStreaming ==
    AtomicCall =>
        /\ appPc = "handler" => appSent = <<>> /\ response_list = responded
        /\ (AppAnswered /\ appOutcome = "returned") =>
              \E ret \in {<<>>} \cup {<<v>> : v \in RespValues} :
                  appSent = << <<ResultMsg(appCall.trace, responded \o ret),
                                 StatusMsg(appCall.trace, OSRF_STATUS_COMPLETE)>> >>
        /\ (AppAnswered /\ appOutcome = "raised") =>
              appSent = << <<StatusMsg(appCall.trace, OSRF_STATUS_INTERNALSERVERERROR)>> >>

\* the handler of an '.atomic' twin responded 2 then 1 and returned nothing:
\* one RESULT [2, 1] and COMPLETE went out
C7_Witness ==
    /\ AtomicCall /\ AppAnswered /\ appOutcome = "returned"
    /\ responded = <<2, 1>>
    /\ appSent = << <<ResultMsg(appCall.trace, <<2, 1>>),
                      StatusMsg(appCall.trace, OSRF_STATUS_COMPLETE)>> >>

\* ------------------------------------------------------------------------
\* HTTP translator (http_translator.py)
\* ------------------------------------------------------------------------
MaxReplies == 3
MaxBus == 1

HttpThreads == {"t1", "t2"}
Jids == {"drone1", "drone2"}
Hosts == {"ip1", "ip2"}
NoHeader == "none"
\* "%s@%s/%s" % (ROUTER_NAME, OSRF_DOMAIN, self.service)
RouterAddr == "router"

\* apache status codes
HTTP_OK == 200
HTTP_BAD_REQUEST == 400
HTTP_NOT_FOUND == 404
HTTP_GATEWAY_TIME_OUT == 504

\* JSON text is a sequence of tokens: the brackets, the commas and one token
\* for each serialized osrfMessage
Brackets == {"[", ",", "]"}
ResultTokens == {"A", "B"}
StatusTokens == {"S100", "S200", "S205", "S408"}

\* osrfMessage.type() of a parsed message
MsgType(tok) ==
    IF tok \in ResultTokens THEN "RESULT"
    ELSE IF tok \in StatusTokens THEN "STATUS"
    ELSE tok

\* int(last_msg.payload().statusCode())
StatusCodeOf(tok) ==
    CASE tok = "S100" -> OSRF_STATUS_CONTINUE
      [] tok = "S200" -> OSRF_STATUS_OK
      [] tok = "S205" -> OSRF_STATUS_COMPLETE
      [] tok = "S408" -> OSRF_STATUS_TIMEOUT
      [] OTHER -> 0

\* osrf.json.to_json of a list of messages
RECURSIVE JoinTokens(_)
JoinTokens(msgs) ==
    IF msgs = <<>> THEN <<>>
    ELSE IF Len(msgs) = 1 THEN msgs
    ELSE <<Head(msgs), ",">> \o JoinTokens(Tail(msgs))
JsonArray(msgs) == <<"[">> \o JoinTokens(msgs) \o <<"]">>

\* osrf.json.to_object of the text of an array of messages
JsonParse(text) == SelectSeq(text, LAMBDA t : t \notin Brackets)

\* the bodies a client can post: missing, '[]', a lone CONNECT, a lone
\* DISCONNECT, one REQUEST
RequestBodies ==
    {<<>>, JsonArray(<<>>), JsonArray(<<"CONNECT">>), JsonArray(<<"DISCONNECT">>),
     JsonArray(<<"REQUEST">>)}

\* the bodies of NetworkMessages coming from the bus
ReplyBodies ==
    {JsonArray(<<"A">>), JsonArray(<<"B", "S205">>), JsonArray(<<"S205">>),
     JsonArray(<<"S100">>), JsonArray(<<"S408">>)}

NoEntry == [ip |-> NoHeader, jid |-> NoHeader]

NoHttpRequest ==
    [header_only |-> TRUE, body |-> <<>>, to |-> NoHeader, service |-> FALSE,
     thread |-> "t1", host |-> "ip1", multipart |-> FALSE]

\* the requests as the translator sees them: __init__ reads nothing of a
\* header-only request and does not look at the multipart header of a
\* request without a body
HttpRequests ==
    {NoHttpRequest}
    \cup [header_only : {FALSE}, body : {<<>>}, to : Jids \cup {NoHeader},
          service : BOOLEAN, thread : HttpThreads, host : Hosts, multipart : {FALSE}]
    \cup [header_only : {FALSE}, body : RequestBodies \ {<<>>}, to : Jids \cup {NoHeader},
          service : BOOLEAN, thread : HttpThreads, host : Hosts, multipart : BOOLEAN]

\* faulty variant: the cached entry is not compared with the request
AffinityHolds_any(c, req) == c[req.thread] /= NoEntry

\* set_to_addr: obj and obj['ip'] == self.remote_host and obj['jid'] == self.recipient
AffinityHolds(c, req) ==
    /\ c[req.thread] /= NoEntry
    /\ c[req.thread].ip = req.host
    /\ c[req.thread].jid = req.to

\* HTTPTranslator.set_to_addr: the recipient, or NoHeader when it returns False
set_to_addr(c, req) ==
    IF req.service
    THEN IF req.to /= NoHeader THEN NoHeader ELSE RouterAddr
    ELSE IF req.to /= NoHeader /\ AffinityHolds(c, req) THEN req.to ELSE NoHeader

\* HTTPTranslator.parse_request
parse_request(body) ==
    LET osrf_msgs == JsonParse(body)
    IN  [ok |-> osrf_msgs /= <<>>,
         connect_only |-> Len(osrf_msgs) = 1 /\ MsgType(osrf_msgs[1]) = "CONNECT",
         disconnect_only |-> Len(osrf_msgs) = 1 /\ MsgType(osrf_msgs[1]) = "DISCONNECT"]

\* faulty variant: every status that is not a timeout completes the request
check_status_eager(net_msg) ==
    LET osrf_msgs == JsonParse(net_msg.body)
        last_msg == osrf_msgs[Len(osrf_msgs)]
        status == MsgType(last_msg) = "STATUS"
        code == StatusCodeOf(last_msg)
    IN  [keep |-> ~(status /\ code = OSRF_STATUS_TIMEOUT),
         evict |-> status /\ code = OSRF_STATUS_TIMEOUT,
         complete |-> status /\ code /= OSRF_STATUS_TIMEOUT]

\* HTTPTranslator.check_status: what it returns and whether it completes the
\* request or deletes the cache entry
check_status(net_msg) ==
    LET osrf_msgs == JsonParse(net_msg.body)
        last_msg == osrf_msgs[Len(osrf_msgs)]
        status == MsgType(last_msg) = "STATUS"
        code == StatusCodeOf(last_msg)
    IN  [keep |-> ~(status /\ code = OSRF_STATUS_TIMEOUT),
         evict |-> status /\ code = OSRF_STATUS_TIMEOUT,
         complete |-> status /\ code /= OSRF_STATUS_TIMEOUT /\ code /= OSRF_STATUS_CONTINUE]

\* faulty variant: the next body is glued on whole
Splice_whole(json, msg) == SubSeq(json, 1, Len(json) - 1) \o <<",">> \o msg

\* json = "%s,%s" % (json[0:len(json)-1], msg[1:])
Splice(json, msg) == SubSeq(json, 1, Len(json) - 1) \o <<",">> \o SubSeq(msg, 2, Len(msg))

\* the loop that condenses self.messages into one array
RECURSIVE CondenseInto(_, _)
CondenseInto(json, messages) ==
    IF messages = <<>> THEN json
    ELSE CondenseInto(Splice(json, Head(messages)), Tail(messages))
Condense(messages) == CondenseInto(Head(messages), Tail(messages))

\* HTTPTranslator.respond_chunk: its writes
respond_chunk(body, complete) ==
    <<<<"Content-type">>, body, IF complete THEN <<"--delim--">> ELSE <<"--delim">>>>

HttpInit ==
    /\ cache = [t \in HttpThreads |-> NoEntry]
    /\ bus = <<>>
    /\ busCount = 0
    /\ hPc = "idle"
    /\ hReq = NoHttpRequest
    /\ hStatus = 0
    /\ hSent = <<>>
    /\ hMessages = <<>>
    /\ hComplete = FALSE
    /\ hFirstWrite = TRUE
    /\ hWritten = <<>>
    /\ hFrom = NoHeader
    /\ hReplies = <<>>

\* the request-local state of a translator that has not received anything
HttpFresh ==
    /\ hMessages' = <<>>
    /\ hComplete' = FALSE
    /\ hFirstWrite' = TRUE
    /\ hWritten' = <<>>
    /\ hFrom' = NoHeader
    /\ hReplies' = <<>>

\* process() returns status
HttpReturn(status) == hStatus' = status /\ hPc' = "done"

\* faulty variant: the message goes out before the request is validated
HttpRequest_sendfirst(req) ==
    /\ hPc = "idle"
    /\ UNCHANGED httpOthers
    /\ hReq' = req
    /\ busCount' = 0
    /\ HttpFresh
    /\ UNCHANGED cache
    /\ LET recipient == set_to_addr(cache, req)
           parsed == parse_request(req.body)
       IN  IF req.header_only
           THEN HttpReturn(HTTP_OK) /\ UNCHANGED <<bus, hSent>>
           ELSE /\ bus' = <<>>
                /\ hSent' = <<[recipient |-> recipient, thread |-> req.thread,
                               body |-> req.body]>>
                /\ IF req.body = <<>> \/ recipient = NoHeader \/ ~parsed.ok
                   THEN HttpReturn(HTTP_BAD_REQUEST)
                   ELSE IF parsed.disconnect_only
                   THEN HttpReturn(HTTP_OK)
                   ELSE hStatus' = 0 /\ hPc' = "recv"

\* handler(req): HTTPTranslator.__init__ and process() up to the reply loop
HttpRequest(req) ==
    /\ hPc = "idle"
    /\ UNCHANGED httpOthers
    /\ hReq' = req
    /\ busCount' = 0
    /\ HttpFresh
    /\ UNCHANGED cache
    /\ LET recipient == set_to_addr(cache, req)
           parsed == parse_request(req.body)
       IN  IF req.header_only
           THEN HttpReturn(HTTP_OK) /\ UNCHANGED <<bus, hSent>>
           ELSE IF req.body = <<>> \/ recipient = NoHeader \/ ~parsed.ok
           THEN HttpReturn(HTTP_BAD_REQUEST) /\ UNCHANGED <<bus, hSent>>
           ELSE /\ bus' = <<>>
                /\ hSent' = <<[recipient |-> recipient, thread |-> req.thread,
                               body |-> req.body]>>
                /\ IF parsed.disconnect_only
                   THEN HttpReturn(HTTP_OK)
                   ELSE hStatus' = 0 /\ hPc' = "recv"

\* one pass of the reply loop with a message from the bus
HttpReply ==
    /\ hPc = "recv"
    /\ UNCHANGED httpOthers
    /\ bus /= <<>>
    /\ LET net_msg == Head(bus)
           cs == check_status(net_msg)
           complete == hComplete \/ cs.complete
           connect_only == parse_request(hReq.body).connect_only
           first == cs.keep /\ hFirstWrite
           cache1 == IF cs.evict THEN [cache EXCEPT ![net_msg.thread] = NoEntry] ELSE cache
           messages == Append(hMessages, net_msg.body)
           flush == complete \/ connect_only
       IN  /\ bus' = Tail(bus)
           /\ hReplies' = Append(hReplies, net_msg.body)
           /\ hComplete' = complete
           /\ hFirstWrite' = (hFirstWrite /\ ~cs.keep)
           /\ hFrom' = IF first THEN net_msg.sender ELSE hFrom
           /\ cache' = IF first
                       THEN [cache1 EXCEPT ![hReq.thread] =
                                [ip |-> hReq.host, jid |-> net_msg.sender]]
                       ELSE cache1
           /\ hWritten' =
                IF ~cs.keep THEN hWritten
                ELSE IF hReq.multipart
                THEN hWritten \o (IF first THEN <<<<"--delim">>>> ELSE <<>>)
                              \o respond_chunk(net_msg.body, complete)
                ELSE IF flush THEN Append(hWritten, Condense(messages))
                ELSE hWritten
           /\ hMessages' =
                IF ~cs.keep \/ hReq.multipart THEN hMessages
                ELSE IF flush THEN <<>>
                ELSE messages
           /\ IF cs.keep /\ (complete \/ (hReq.multipart /\ connect_only))
              THEN HttpReturn(HTTP_OK)
              ELSE UNCHANGED <<hPc, hStatus>>
    /\ UNCHANGED <<busCount, hReq, hSent>>

\* self.handle.recv(self.timeout) returns nothing
HttpTimeout ==
    /\ hPc = "recv"
    /\ UNCHANGED httpOthers
    /\ bus = <<>>
    /\ HttpReturn(HTTP_GATEWAY_TIME_OUT)
    /\ UNCHANGED <<cache, bus, busCount, hReq, hSent, hMessages, hComplete, hFirstWrite,
                   hWritten, hFrom, hReplies>>

\* self.handle.recv(self.timeout) raises XMPPNoRecipient
HttpNoRecipient ==
    /\ hPc = "recv"
    /\ UNCHANGED httpOthers
    /\ bus = <<>>
    /\ HttpReturn(HTTP_NOT_FOUND)
    /\ UNCHANGED <<cache, bus, busCount, hReq, hSent, hMessages, hComplete, hFirstWrite,
                   hWritten, hFrom, hReplies>>

\* handler(req) returns the status; the translator object is dropped
HttpFinish ==
    /\ hPc = "done"
    /\ UNCHANGED httpOthers
    /\ hPc' = "idle"
    /\ hReq' = NoHttpRequest
    /\ hStatus' = 0
    /\ hSent' = <<>>
    /\ busCount' = 0
    /\ HttpFresh
    /\ UNCHANGED <<cache, bus>>

\* a NetworkMessage reaches the translator's network handle; one that
\* arrives outside the reply loop is dropped unread by the next request
BusArrive(thread, sender, body) ==
    /\ Len(bus) < MaxBus
    /\ busCount < MaxReplies
    /\ hPc /= "recv" => body = JsonArray(<<"A">>) /\ sender = "drone1"
    /\ UNCHANGED httpOthers
    /\ bus' = Append(bus, [thread |-> thread, sender |-> sender, body |-> body])
    /\ busCount' = busCount + 1
    /\ UNCHANGED <<cache, hPc, hReq, hStatus, hSent, hMessages, hComplete, hFirstWrite,
                   hWritten, hFrom, hReplies>>

\* a cache entry outlives CACHE_TIME
CacheExpire(thread) ==
    /\ UNCHANGED httpOthers
    /\ cache[thread] /= NoEntry
    /\ cache' = [cache EXCEPT ![thread] = NoEntry]
    /\ UNCHANGED <<bus, busCount, hPc, hReq, hStatus, hSent, hMessages, hComplete,
                   hFirstWrite, hWritten, hFrom, hReplies>>

HttpNext ==
    \/ \E req \in HttpRequests : HttpRequest(req)
    \/ HttpReply
    \/ HttpTimeout
    \/ HttpNoRecipient
    \/ HttpFinish
    \/ \E thread \in HttpThreads, sender \in Jids, body \in ReplyBodies :
           BusArrive(thread, sender, body)
    \/ \E thread \in HttpThreads : CacheExpire(thread)

\* ------------------------------------------------------------------------
\* Claims about the HTTP translator
\* ------------------------------------------------------------------------
\* the step in which the translator takes up an HTTP request
HttpTakesRequest == hPc = "idle" /\ hPc' /= "idle"

\* C8: a request with X-OpenSRF-to and no X-OpenSRF-service is passed on to
\* the bus only if its thread is cached with its remote host and its to
\* address, and is passed on whenever that is so and its body holds a
\* message; with no such cache entry it is answered 400 and nothing is sent.
C8_SessionAffinity ==
    [][ (HttpTakesRequest /\ hReq'.to /= NoHeader /\ ~hReq'.service) =>
          LET entry == cache[hReq'.thread]
              cached == entry /= NoEntry /\ entry.ip = hReq'.host /\ entry.jid = hReq'.to
          IN  IF cached /\ JsonParse(hReq'.body) /= <<>>
              THEN /\ hStatus' /= HTTP_BAD_REQUEST
                   /\ hSent' = <<[recipient |-> hReq'.to, thread |-> hReq'.thread,
                                  body |-> hReq'.body]>>
              ELSE /\ hStatus' = HTTP_BAD_REQUEST
                   /\ hSent' = <<>>
                   /\ cache' = cache
      ]_vars

\* a request naming the drone cached for its thread and host is in the
\* reply loop, its message sent to that drone
C8_Witness ==
    /\ hPc = "recv" /\ hReplies = <<>>
    /\ hReq.to /= NoHeader /\ ~hReq.service
    /\ cache[hReq.thread] = [ip |-> hReq.host, jid |-> hReq.to]
    /\ Len(hSent) = 1 /\ hSent[1].recipient = hReq.to

\* the messages of a list of bodies, in order
RECURSIVE AllMessages(_)
AllMessages(bodies) ==
    IF bodies = <<>> THEN <<>>
    ELSE JsonParse(Head(bodies)) \o AllMessages(Tail(bodies))

\* the replies the translator does not drop: those not ending in STATUS TIMEOUT
KeptReplies ==
    SelectSeq(hReplies, LAMBDA b : JsonParse(b)[Len(JsonParse(b))] /= "S408")

\* a non-multipart request, not a lone CONNECT, went through the reply loop
PlainRequest ==
    /\ hPc \in {"recv", "done"}
    /\ Len(hSent) = 1
    /\ ~hReq.multipart
    /\ ~parse_request(hReq.body).connect_only
    /\ ~parse_request(hReq.body).disconnect_only

\* the replies were RESULT messages followed by the COMPLETE status
ResultsThenComplete ==
    LET msgs == AllMessages(hReplies)
    IN  /\ Len(msgs) >= 2
        /\ msgs[Len(msgs)] = "S205"
        /\ \A i \in 1..(Len(msgs) - 1) : msgs[i] \in ResultTokens

\* C9 as claimed: the body is the array of exactly the RESULT messages
C9_ResultsOnly ==
    (PlainRequest /\ hPc = "done" /\ hStatus = HTTP_OK /\ ResultsThenComplete) =>
        hWritten = <<JsonArray(SelectSeq(AllMessages(hReplies),
                                         LAMBDA m : m \in ResultTokens))>>

\* C9 as the code has it: nothing is written before completion; at
\* completion the body is written once and is the array of every message of
\* every reply that was not dropped, STATUS messages included, in arrival
\* order; a request that ends with 404 or 504 has written nothing.
C9_NonMultipartBody ==
    PlainRequest =>
        /\ hPc = "recv" => hWritten = <<>> /\ hMessages = KeptReplies
        /\ (hPc = "done" /\ hStatus = HTTP_OK) =>
              hWritten = <<JsonArray(AllMessages(KeptReplies))>>
        /\ (hPc = "done" /\ hStatus /= HTTP_OK) => hWritten = <<>>

\* [A] and [B, COMPLETE] arrived: the one body written is [A, B, COMPLETE]
C9_Witness ==
    /\ PlainRequest /\ hPc = "done" /\ hStatus = HTTP_OK
    /\ hReplies = <<JsonArray(<<"A">>), JsonArray(<<"B", "S205">>)>>
    /\ hWritten = <<JsonArray(<<"A", "B", "S205">>)>>

\* ------------------------------------------------------------------------
\* JSON codec (json.py, net_obj.py)
\* ------------------------------------------------------------------------
MaxArrayLen == 2

\* OSRF_JSON_CLASS_KEY, OSRF_JSON_PAYLOAD_KEY
ClassKey == "__c"
PayloadKey == "__p"

\* Values are trees: scalars, arrays, objects (dict) and NetworkObject
\* instances.  A scalar is named by its JSON text; the strings among them
\* have one character.
StringAtoms == {"H", "R", "X"}
OtherAtoms == {"null", "1"}
Atom(a) == [k |-> "atom", a |-> a]
Arr(items) == [k |-> "arr", items |-> items]
Obj(fields) == [k |-> "obj", fields |-> fields]
Inst(hint, data) == [k |-> "inst", hint |-> hint, data |-> data]
JNull == Atom("null")
EmptyObj == Obj([key \in {} |-> JNull])

\* NetworkRegistry.registry after register_hint('H', ['f', 'g'], 'hash'),
\* register_hint('R', ['f', 'g'], 'array') and the '__unknown' class
Registry ==
    [h \in {"H", "R", "__unknown"} |->
        IF h = "H" THEN [keys |-> <<"f", "g">>, protocol |-> "hash"]
        ELSE IF h = "R" THEN [keys |-> <<"f", "g">>, protocol |-> "array"]
        ELSE [keys |-> <<>>, protocol |-> "hash"]]

\* dict.get(key)
DictGet(d, key) == IF key \in DOMAIN d THEN d[key] ELSE JNull

\* faulty variant: fields that were never set are left out of the array
ArrayPayload_set(keys, data) ==
    SelectSeq([i \in 1..Len(keys) |-> DictGet(data, keys[i])], LAMBDA v : v /= JNull)

\* NetworkEncoder.default: objarray.append(data.get(key)) for key in reg.keys
ArrayPayload(keys, data) == [i \in 1..Len(keys) |-> DictGet(data, keys[i])]

\* faulty variant: only the declared fields go into the payload
HashPayload_declared(keys, data) ==
    [key \in DOMAIN data \cap {keys[i] : i \in 1..Len(keys)} |-> data[key]]

\* NetworkEncoder.default: data = obj.get_data(), the whole field mapping
HashPayload(keys, data) == data

\* NetworkEncoder.default(obj): one level, the payload's values as they are
NetworkEncoder_default(v) ==
    IF v.k = "inst"
    THEN LET reg == Registry[v.hint]
             payload == IF reg.protocol = "array"
                        THEN Arr(ArrayPayload(reg.keys, v.data))
                        ELSE Obj(HashPayload(reg.keys, v.data))
         IN  Obj([key \in {ClassKey, PayloadKey} |->
                     IF key = ClassKey THEN Atom(v.hint) ELSE payload])
    ELSE v

\* to_json: NetworkEncoder.default applied through the value (encode_object
\* does the same for cjson); the result is plain JSON
RECURSIVE to_json(_)
to_json(v) ==
    LET d == NetworkEncoder_default(v)
    IN  CASE d.k = "atom" -> d
          [] d.k = "arr" -> Arr([i \in 1..Len(d.items) |-> to_json(d.items[i])])
          [] d.k = "obj" -> Obj([key \in DOMAIN d.fields |-> to_json(d.fields[key])])

\* len(sub_object) and sub_object[entry] as parse_net_object uses them on an
\* array-protocol payload: the entries, or raises for a TypeError / KeyError
Entries(sub) ==
    CASE sub.k = "arr" -> [raises |-> FALSE, items |-> sub.items]
      [] sub.k = "atom" -> [raises |-> sub.a \notin StringAtoms, items |-> <<sub>>]
      [] sub.k = "obj" -> [raises |-> DOMAIN sub.fields /= {}, items |-> <<>>]

\* parse_net_object
RECURSIVE parse_net_object(_)
parse_net_object(obj) ==
    LET plain ==
            CASE obj.k = "arr" ->
                   Arr([i \in 1..Len(obj.items) |-> parse_net_object(obj.items[i])])
              [] obj.k = "obj" ->
                   Obj([key \in DOMAIN obj.fields |-> parse_net_object(obj.fields[key])])
              [] OTHER -> obj
    IN  IF obj.k /= "obj" \/ ~({ClassKey, PayloadKey} \subseteq DOMAIN obj.fields)
        THEN plain
        ELSE
          LET hint == obj.fields[ClassKey]
              sub == obj.fields[PayloadKey]
          IN  IF hint.k /= "atom" THEN plain
              ELSE IF hint.a \notin DOMAIN Registry THEN EmptyObj
              ELSE
                LET reg == Registry[hint.a]
                    n == Len(reg.keys)
                IN  IF reg.protocol = "array"
                    THEN IF Entries(sub).raises THEN EmptyObj
                         ELSE Inst(hint.a,
                                [key \in {reg.keys[i] : i \in 1..n} |->
                                   LET i == CHOOSE j \in 1..n : reg.keys[j] = key
                                   IN  IF Len(Entries(sub).items) >= i
                                       THEN parse_net_object(Entries(sub).items[i])
                                       ELSE JNull])
                    ELSE IF sub.k /= "obj" /\ n > 0 THEN EmptyObj
                         ELSE Inst(hint.a,
                                [key \in {reg.keys[i] : i \in 1..n} |->
                                   parse_net_object(DictGet(sub.fields, key))])

\* to_object
to_object(json) == parse_net_object(json)

\* The values the codec is run on, two levels deep
SeqsUpTo(S, n) == UNION {[1..m -> S] : m \in 0..n}
DictsOver(keys, S) == UNION {[ks -> S] : ks \in SUBSET keys}
Values0 == {Atom(a) : a \in StringAtoms \cup OtherAtoms}
Values1 ==
    Values0
    \cup {Arr(items) : items \in SeqsUpTo(Values0, MaxArrayLen)}
    \cup {Obj(fields) : fields \in DictsOver({"f", ClassKey, PayloadKey}, Values0)}
    \cup {Inst(hint, data) : hint \in {"H", "R"}, data \in DictsOver({"f", "g", "x"}, Values0)}
JsonValues ==
    Values1
    \cup {Arr(<<v>>) : v \in Values1}
    \cup {Obj([key \in {ClassKey, PayloadKey} |-> IF key = ClassKey THEN h ELSE v]) :
             h \in Values0, v \in Values1}
    \cup {Inst(hint, [key \in {"f"} |-> v]) : hint \in {"H", "R"}, v \in Values1}
    \cup {Inst(hint, [key \in {"f", "g"} |-> IF key = "f" THEN JNull ELSE v]) :
             hint \in {"H", "R"}, v \in Values1}

JsonInit ==
    /\ jPc = "value"
    /\ jValue = JNull
    /\ jWire = JNull
    /\ jOut = JNull

\* osrf.json.to_json(value)
JsonEncode ==
    /\ jPc = "value"
    /\ UNCHANGED jsonOthers
    /\ jWire' = to_json(jValue)
    /\ jPc' = "encoded"
    /\ UNCHANGED <<jValue, jOut>>

\* osrf.json.to_object(json)
JsonDecode ==
    /\ jPc = "encoded"
    /\ UNCHANGED jsonOthers
    /\ jOut' = to_object(jWire)
    /\ jPc' = "decoded"
    /\ UNCHANGED <<jValue, jWire>>

\* NetworkEncoder().default(value), as the encoder tests call it
JsonDefault ==
    /\ jPc = "value"
    /\ UNCHANGED jsonOthers
    /\ jWire' = NetworkEncoder_default(jValue)
    /\ jPc' = "wrapped"
    /\ UNCHANGED <<jValue, jOut>>

JsonNext == JsonEncode \/ JsonDecode \/ JsonDefault

\* ------------------------------------------------------------------------
\* Claims about the JSON codec
\* ------------------------------------------------------------------------
\* structural equality: same scalars, arrays element by element, objects
\* key by key, instances by class hint and declared fields
RECURSIVE StructEq(_, _)
StructEq(v, w) ==
    /\ v.k = w.k
    /\ CASE v.k = "atom" -> v.a = w.a
         [] v.k = "arr" ->
              /\ Len(v.items) = Len(w.items)
              /\ \A i \in 1..Len(v.items) : StructEq(v.items[i], w.items[i])
         [] v.k = "obj" ->
              /\ DOMAIN v.fields = DOMAIN w.fields
              /\ \A key \in DOMAIN v.fields : StructEq(v.fields[key], w.fields[key])
         [] v.k = "inst" ->
              /\ v.hint = w.hint
              /\ \A i \in 1..Len(Registry[v.hint].keys) :
                    LET key == Registry[v.hint].keys[i]
                    IN  StructEq(DictGet(v.data, key), DictGet(w.data, key))

\* some plain object inside v carries both the class key and the payload key
RECURSIVE HasReservedKeys(_)
HasReservedKeys(v) ==
    CASE v.k = "atom" -> FALSE
      [] v.k = "arr" -> \E i \in 1..Len(v.items) : HasReservedKeys(v.items[i])
      [] v.k = "obj" ->
           \/ {ClassKey, PayloadKey} \subseteq DOMAIN v.fields
           \/ \E key \in DOMAIN v.fields : HasReservedKeys(v.fields[key])
      [] v.k = "inst" -> \E key \in DOMAIN v.data : HasReservedKeys(v.data[key])

\* C10 as claimed: every value comes back structurally equal
C10_RoundTripAll ==
    jPc = "decoded" => StructEq(jValue, jOut)

\* C10 as the code has it: a value comes back structurally equal, class
\* hints and declared fields preserved, array-protocol fields at their key
\* positions, unless a plain object in it carries both '__c' and '__p'.
C10_RoundTrip ==
    (jPc = "decoded" /\ ~HasReservedKeys(jValue)) => StructEq(jValue, jOut)

\* an array-protocol instance with only its second field set, holding a
\* hash-protocol instance, has come back with both at their places
C10_Witness ==
    /\ jPc = "decoded"
    /\ jValue = Inst("R", [key \in {"f", "g"} |->
                             IF key = "f" THEN JNull
                             ELSE Inst("H", [k2 \in {"g"} |-> Atom("1")])])
    /\ jWire.fields[PayloadKey].k = "arr"
    /\ jOut.hint = "R"
    /\ jOut.data["f"] = JNull
    /\ jOut.data["g"] = Inst("H", [k2 \in {"f", "g"} |-> IF k2 = "f" THEN JNull ELSE Atom("1")])

\* C11: NetworkEncoder.default turns an instance of a hash-protocol class
\* into an object with exactly the class key, mapped to the hint, and the
\* payload key, mapped to the fields that were set on the instance, declared
\* or not, each with its value, and nothing else.
C11_HashEncoding ==
    (jPc = "wrapped" /\ jValue.k = "inst" /\ Registry[jValue.hint].protocol = "hash") =>
        /\ jWire.k = "obj"
        /\ DOMAIN jWire.fields = {ClassKey, PayloadKey}
        /\ jWire.fields[ClassKey] = Atom(jValue.hint)
        /\ jWire.fields[PayloadKey].k = "obj"
        /\ DOMAIN jWire.fields[PayloadKey].fields = DOMAIN jValue.data
        /\ \A key \in DOMAIN jValue.data :
              jWire.fields[PayloadKey].fields[key] = jValue.data[key]

\* a hash-protocol instance with g and the undeclared x set, f never set
C11_Witness ==
    /\ jPc = "wrapped"
    /\ jValue.k = "inst" /\ jValue.hint = "H"
    /\ DOMAIN jValue.data = {"g", "x"}
    /\ DOMAIN jWire.fields[PayloadKey].fields = {"g", "x"}

\* ------------------------------------------------------------------------
\* Connection management of a client session (osrf/ses.py, osrf/stack.py)
\* ------------------------------------------------------------------------
MaxConnArrive == 3   \* NetworkMessages that arrive for the session over the run
MaxSent == 3         \* messages the session sends over the run
MaxConnTimeout == 1  \* largest timeout passed to connect, in ticks

ConnThread == 1      \* the session's thread, a key of Session.session_cache

\* ClientSession.__init__: "%s@%s/%s" % (router, domain, service)
orig_remote_id == RouterAddr

\* faulty variant: the drone learnt from the last reply is kept
reset_remote_id_keep(cur) == cur

\* ClientSession.reset_remote_id()
reset_remote_id(cur) == orig_remote_id

\* faulty variant: the sender of a reply is not taken over
set_remote_id_router(sender) == orig_remote_id

\* ClientSession.set_remote_id(remoteid)
set_remote_id(sender) == sender

\* connect(), "self.state == OSRF_APP_SESSION_CONNECTING": a comparison whose
\* value is dropped, so the state is what it was
connect_marks_state(state) == state

\* faulty variant: connect returns True whatever the state
connect_result_true(state) == "true"

\* connect() after its loop: raise OSRFServiceException unless CONNECTED
connect_result(state) == IF state = "CONNECTED" THEN "true" ELSE "service"

\* faulty variant: disconnect sends in every state
disconnect_sends_always(state) == TRUE

\* disconnect(): returns at once when the state is already DISCONNECTED
disconnect_sends(state) == state /= "DISCONNECTED"

\* Session.send(omessage): the NetworkMessage handed to the network handle,
\* with the session's situation at that moment
SentMsg(type, to) ==
    [type |-> type, to |-> to, connected |-> sesState[ConnThread] = "CONNECTED",
     was |-> remote_id, peer |-> cDrone, from |-> cLastFrom]

\* a NetworkMessage on the session's thread, with its sender
ConnEnvelope(sender, body) == [thread |-> ConnThread, sender |-> sender, body |-> body]

\* how a call ended: ret is "none" (no value, or still running), "true",
\* "service" or "protocol"; sent tells whether the call sent a message and
\* before is the session state when it was called
CallRec(op, ret, sent, before) == [op |-> op, ret |-> ret, sent |-> sent, before |-> before]

ConnInit ==
    /\ remote_id = orig_remote_id
    /\ cPc = "idle"
    /\ cTimeout = 0
    /\ cWaited = 0
    /\ cBus = <<>>
    /\ cArrived = 0
    /\ cSent = <<>>
    /\ cInflight = 0
    /\ cDrone = "none"
    /\ cLastFrom = "none"
    /\ cGot200 = FALSE
    /\ cLast = CallRec("none", "none", FALSE, "DISCONNECTED")

\* ---- the environment: a drone answers on the session's thread ----
\* a STATUS 200 OK is a server's answer to a CONNECT; RESULTs answer a request
ConnBodies ==
    {<<StatusMsg(0, code)>> :
        code \in {OSRF_STATUS_TIMEOUT, OSRF_STATUS_NOTFOUND, OSRF_STATUS_OVERLOADED}}
    \cup (IF cInflight > 0 THEN {<<StatusMsg(0, OSRF_STATUS_OK)>>} ELSE {})
    \cup {<<ResultMsg(r, 1), StatusMsg(r, OSRF_STATUS_COMPLETE)>> :
            r \in {x \in Rids : requests[ConnThread][x].exists}}

IsConnectAnswer(body) == body = <<StatusMsg(0, OSRF_STATUS_OK)>>

ConnArrive ==
    /\ UNCHANGED connOthers
    /\ cArrived < MaxConnArrive
    /\ Len(cBus) < MaxInbox
    /\ cSent /= <<>>
    /\ \E sender \in Jids : \E body \in ConnBodies :
         /\ cBus' = Append(cBus, ConnEnvelope(sender, body))
         /\ cInflight' = IF IsConnectAnswer(body) THEN cInflight - 1 ELSE cInflight
    /\ cArrived' = cArrived + 1
    /\ UNCHANGED <<sesState, next_id, requests, remote_id, cPc, cTimeout, cWaited, cSent,
                   cDrone, cLastFrom, cGot200, cLast>>

\* ---- stack.push(net_msg) on the oldest NetworkMessage of the transport ----
ConnPushed == push(SesRec, Head(cBus))

HandlesOk(env) ==
    LET handled == Handled(SesRec, env.thread, env.body)
    IN  \E i \in 1..Len(handled) :
            handled[i].type = "STATUS" /\ handled[i].code = OSRF_STATUS_OK

ConnPush ==
    /\ cBus' = Tail(cBus)
    /\ remote_id' = set_remote_id(Head(cBus).sender)
    /\ requests' = ConnPushed.requests
    /\ sesState' = ConnPushed.state
    /\ cLastFrom' = Head(cBus).sender
    /\ cDrone' = IF HandlesOk(Head(cBus)) THEN Head(cBus).sender ELSE cDrone

\* ---- ClientSession.__request(method, arr) ----
ConnRequest ==
    /\ UNCHANGED connOthers
    /\ cPc = "idle"
    /\ next_id[ConnThread] < MaxReq
    /\ Len(cSent) < MaxSent
    /\ LET to == IF sesState[ConnThread] /= "CONNECTED"
                 THEN reset_remote_id(remote_id) ELSE remote_id
       IN  /\ remote_id' = to
           /\ cSent' = Append(cSent, SentMsg("REQUEST", to))
    /\ requests' = [requests EXCEPT ![ConnThread][next_id[ConnThread]] = NewRequest]
    /\ next_id' = [next_id EXCEPT ![ConnThread] = @ + 1]
    /\ cLast' = CallRec("request", "none", TRUE, sesState[ConnThread])
    /\ UNCHANGED <<sesState, cPc, cTimeout, cWaited, cBus, cArrived, cInflight, cDrone,
                   cLastFrom, cGot200>>

\* ---- ClientSession.connect(timeout) ----
\* the call up to its first wait
ConnConnect(t) ==
    /\ UNCHANGED connOthers
    /\ cPc = "idle"
    /\ IF sesState[ConnThread] = "CONNECTED"
       THEN /\ cLast' = CallRec("connect", "true", FALSE, sesState[ConnThread])
            /\ UNCHANGED <<sesState, remote_id, cPc, cTimeout, cWaited, cSent, cInflight,
                           cGot200>>
       ELSE /\ Len(cSent) < MaxSent
            /\ sesState' = [sesState EXCEPT ![ConnThread] = connect_marks_state(@)]
            /\ cSent' = Append(cSent, SentMsg("CONNECT", remote_id))
            /\ cInflight' = cInflight + 1
            /\ cPc' = "connecting"
            /\ cTimeout' = t
            /\ cWaited' = 0
            /\ cGot200' = FALSE
            /\ cLast' = CallRec("connect", "none", TRUE, sesState[ConnThread])
            /\ UNCHANGED remote_id
    /\ UNCHANGED <<next_id, requests, cBus, cArrived, cDrone, cLastFrom>>

\* one tick passes inside session.wait(timeout)
ConnTick ==
    /\ UNCHANGED connOthers
    /\ cPc = "connecting"
    /\ cBus = <<>>
    /\ cWaited < cTimeout
    /\ cWaited' = cWaited + 1
    /\ UNCHANGED <<sesState, next_id, requests, remote_id, cPc, cTimeout, cBus, cArrived,
                   cSent, cInflight, cDrone, cLastFrom, cGot200, cLast>>

\* connect leaves its loop and returns or raises
ConnLeave(state, ret) ==
    /\ cPc' = "idle"
    /\ cTimeout' = 0
    /\ cWaited' = 0
    /\ cLast' = [cLast EXCEPT !.ret = ret]

\* session.wait returned without a message: the budget is spent
ConnWaitTimeout ==
    /\ UNCHANGED connOthers
    /\ cPc = "connecting"
    /\ cBus = <<>>
    /\ cWaited = cTimeout
    /\ ConnLeave(sesState[ConnThread], connect_result(sesState[ConnThread]))
    /\ UNCHANGED <<sesState, next_id, requests, remote_id, cBus, cArrived, cSent,
                   cInflight, cDrone, cLastFrom, cGot200>>

\* session.wait handled a message: an exception of handle_client leaves
\* connect; otherwise the loop test is made again
ConnWaitMessage ==
    /\ UNCHANGED connOthers
    /\ cPc = "connecting"
    /\ cBus /= <<>>
    /\ ConnPush
    /\ cGot200' = (cGot200 \/ HandlesOk(Head(cBus)))
    /\ LET left == TimeoutLeft(cTimeout, cWaited)
           state == ConnPushed.state[ConnThread]
       IN  IF ConnPushed.exc /= "none" THEN ConnLeave(state, ConnPushed.exc)
           ELSE IF left >= 0 /\ state /= "CONNECTED"
           THEN /\ cTimeout' = left
                /\ cWaited' = 0
                /\ UNCHANGED <<cPc, cLast>>
           ELSE ConnLeave(state, connect_result(state))
    /\ UNCHANGED <<next_id, cArrived, cSent, cInflight>>

\* ---- ClientSession.disconnect() ----
ConnDisconnect ==
    /\ UNCHANGED connOthers
    /\ cPc = "idle"
    /\ IF disconnect_sends(sesState[ConnThread])
       THEN /\ Len(cSent) < MaxSent
            /\ cSent' = Append(cSent, SentMsg("DISCONNECT", remote_id))
            /\ sesState' = [sesState EXCEPT ![ConnThread] = "DISCONNECTED"]
            /\ cLast' = CallRec("disconnect", "none", TRUE, sesState[ConnThread])
       ELSE /\ cLast' = CallRec("disconnect", "true", FALSE, sesState[ConnThread])
            /\ UNCHANGED <<sesState, cSent>>
    /\ UNCHANGED <<next_id, requests, remote_id, cPc, cTimeout, cWaited, cBus, cArrived,
                   cInflight, cDrone, cLastFrom, cGot200>>

\* ---- Request.recv on one of the session's requests: session.wait hands
\* the oldest NetworkMessage to stack.push ----
ConnRecv ==
    /\ UNCHANGED connOthers
    /\ cPc = "idle"
    /\ cBus /= <<>>
    /\ next_id[ConnThread] > 0
    /\ ConnPush
    /\ cLast' = CallRec("recv", ConnPushed.exc, FALSE, sesState[ConnThread])
    /\ UNCHANGED <<next_id, cPc, cTimeout, cWaited, cArrived, cSent, cInflight, cGot200>>

ConnWaits == ConnTick \/ ConnWaitTimeout \/ ConnWaitMessage

ConnNext ==
    \/ ConnArrive
    \/ ConnRequest
    \/ \E t \in 0..MaxConnTimeout : ConnConnect(t)
    \/ ConnTick
    \/ ConnWaitTimeout
    \/ ConnWaitMessage
    \/ ConnDisconnect
    \/ ConnRecv

\* C12: while connect() has sent its CONNECT and waits for the answer, the
\* session state is CONNECTING.
C12_ConnectingWhileWaiting ==
    cPc = "connecting" => sesState[ConnThread] = "CONNECTING"

\* a step in which a call of connect() ends: at once, or out of its wait loop
ConnectEnds ==
    /\ cPc' = "idle"
    /\ cLast'.op = "connect"
    /\ \/ cPc = "connecting"
       \/ cPc = "idle" /\ cLast' /= cLast /\ cSent' = cSent /\ cBus' = cBus
          /\ sesState' = sesState

DisconnectStep ==
    /\ cPc = "idle"
    /\ cLast'.op = "disconnect"
    /\ (cLast' /= cLast \/ cSent' /= cSent)

\* C14 as stated: after any call of disconnect(), whatever the state was, that
\* call has sent a DISCONNECT and the state is DISCONNECTED.
C14_DisconnectAlwaysSends ==
    [][DisconnectStep =>
          /\ sesState'[ConnThread] = "DISCONNECTED"
          /\ Len(cSent') = Len(cSent) + 1
          /\ cSent'[Len(cSent')].type = "DISCONNECT"]_vars

\* C14: after any call of disconnect() the state is DISCONNECTED; the call
\* sends one DISCONNECT, to remote_id, exactly when the state before it was
\* not DISCONNECTED, and sends nothing when it was.
C14_DisconnectSendsIfNeeded ==
    [][DisconnectStep =>
          /\ sesState'[ConnThread] = "DISCONNECTED"
          /\ IF sesState[ConnThread] /= "DISCONNECTED"
             THEN /\ Len(cSent') = Len(cSent) + 1
                  /\ SubSeq(cSent', 1, Len(cSent)) = cSent
                  /\ cSent'[Len(cSent')].type = "DISCONNECT"
                  /\ cSent'[Len(cSent')].to = remote_id
             ELSE cSent' = cSent]_vars

\* disconnect() on a connected session has sent its DISCONNECT to the drone
C14_Witness ==
    /\ cLast = CallRec("disconnect", "none", TRUE, "CONNECTED")
    /\ sesState[ConnThread] = "DISCONNECTED"
    /\ cSent /= <<>>
    /\ cSent[Len(cSent)].type = "DISCONNECT"
    /\ cSent[Len(cSent)].to \in Jids

\* C15: every REQUEST sent while the session is not CONNECTED is addressed
\* to the original router target, whatever remote_id was before the call.
C15_StatelessToRouter ==
    \A i \in 1..Len(cSent) :
        (cSent[i].type = "REQUEST" /\ ~cSent[i].connected) => cSent[i].to = orig_remote_id

\* a REQUEST went to the router although a reply had set remote_id to a drone
C15_Witness ==
    \E i \in 1..Len(cSent) :
        /\ cSent[i].type = "REQUEST"
        /\ ~cSent[i].connected
        /\ cSent[i].was \in Jids
        /\ cSent[i].to = orig_remote_id

C17_OneConnectInFlight == cInflight <= 1

\* ------------------------------------------------------------------------
\* Claims on errors of the client session (SpecSes)
\* ------------------------------------------------------------------------
\* a step in which a recv call is left by an exception of the given kind
RecvRaises(kind) ==
    /\ inbox /= <<>>
    /\ inbox' = Tail(inbox)
    /\ lastRet.kind = "none"
    /\ lastRet'.kind = kind

\* the message of the envelope at handle_client raised on: the last one handled
RaisingMsg(env) ==
    LET handled == Handled(SesRec, env.thread, env.body)
    IN  handled[Len(handled)]

\* C18: when the server answers request r with STATUS 404 or 500, the service
\* exception is raised from a recv call on request r.
C18_ErrorFromOwnRecv ==
    [][(RecvRaises("service")
          /\ find_request(SesRec, Head(inbox).thread, RaisingMsg(Head(inbox)).trace)) =>
            lastRet'.req = <<Head(inbox).thread, RaisingMsg(Head(inbox)).trace>>]_vars

\* C19: an error status (404 or 500) for one request never stops the other
\* requests of the session: when an envelope is handled, the RESULTs and
\* COMPLETEs it carries for the other requests, those that follow the error
\* status included, are queued and marked.
C19_ErrorsSpareOthers ==
    [][(inbox /= <<>> /\ inbox' = Tail(inbox) /\ IsClientThread(Head(inbox).thread)
          /\ \A i \in 1..Len(Head(inbox).body) :
                find_request(SesRec, Head(inbox).thread, Head(inbox).body[i].trace)) =>
          LET env == Head(inbox)
          IN  \A r \in Rids :
                requests[env.thread][r].exists =>
                  /\ requests'[env.thread][r].queue =
                       requests[env.thread][r].queue \o ResultsFor(env.body, r)
                  /\ requests'[env.thread][r].complete =
                       (requests[env.thread][r].complete
                          \/ HasStatus(env.body, r, OSRF_STATUS_COMPLETE))]_vars

\* push hands handle_client a STATUS whose code it has no branch for
HandlesUnknown(env) ==
    LET handled == Handled(SesRec, env.thread, env.body)
    IN  \E i \in 1..Len(handled) :
            handled[i].type = "STATUS" /\ handled[i].code = OSRF_STATUS_OVERLOADED

MaxKeepArrive == 3   \* messages the worker is given over the run

keepalive == 2       \* Controller.keepalive, in ticks

\* what a connected client sends to its drone: connect() sends nothing then
ClientTypes == {"REQUEST", "DISCONNECT"}

\* stack.handle_server(session, message): the session state afterwards
handle_server_state(state, type) ==
    IF type = "CONNECT" THEN "CONNECTED"
    ELSE IF type = "DISCONNECT" THEN "DISCONNECTED"
    ELSE state

\* stack.handle_server(session, message): what the worker sends in answer.
\* send_connect_ok answers a CONNECT with STATUS 200 OK; handle_request
\* answers a REQUEST, here of a method that returns one value.
handle_server_reply(type) ==
    IF type = "CONNECT" THEN << <<StatusMsg(0, OSRF_STATUS_OK)>> >>
    ELSE IF type = "REQUEST"
    THEN << <<ResultMsg(0, 1), StatusMsg(0, OSRF_STATUS_COMPLETE)>> >>
    ELSE <<>>

\* Session.wait(timeout): the function has no return statement, so its
\* caller gets None whether or not a message was handled
wait_status(got) == "None"

\* faulty variant: the timeout is never acted on
KeepaliveTimedOut_never(status) == FALSE

\* keepalive_loop: "if status is None"
KeepaliveTimedOut(status) == status = "None"

\* keepalive_loop: session.send_status(session.thread, osrfConnectStatus
\* with statusCode OSRF_STATUS_TIMEOUT)
TimeoutStatus == <<StatusMsg(ConnThread, OSRF_STATUS_TIMEOUT)>>

KeepInit ==
    /\ wState = "DISCONNECTED"
    /\ kPc = "read"
    /\ kWaited = 0
    /\ kIn = <<>>
    /\ kArrived = 0
    /\ kOut = <<>>
    /\ kRead = 0
    /\ kGot = "none"

\* ---- Child.run: a message comes from the controller and is pushed ----
KeepTake(type) ==
    /\ UNCHANGED keepOthers
    /\ kPc = "read"
    /\ kArrived < MaxKeepArrive
    /\ kArrived' = kArrived + 1
    /\ wState' = handle_server_state("DISCONNECTED", type)
    /\ kOut' = kOut \o handle_server_reply(type)
    /\ kPc' = IF handle_server_state("DISCONNECTED", type) = "CONNECTED"
              THEN "keepalive" ELSE "done"
    /\ kWaited' = 0
    /\ kGot' = "none"
    /\ UNCHANGED <<sesState, requests, kIn, kRead>>

\* ---- Child.run: num_requests += 1, send_status(), back to the data socket ----
KeepAgain ==
    /\ UNCHANGED keepOthers
    /\ kPc = "done"
    /\ kPc' = "read"
    /\ wState' = "DISCONNECTED"
    /\ kIn' = <<>>
    /\ UNCHANGED <<sesState, requests, kWaited, kArrived, kOut, kRead, kGot>>

\* ---- the connected client sends another message straight to the drone;
\* ClientSession.disconnect() also sets the client's state ----
KeepArrive(type) ==
    /\ UNCHANGED keepOthers
    /\ kPc = "keepalive"
    /\ kIn = <<>>
    /\ kArrived < MaxKeepArrive
    /\ sesState[ConnThread] = "CONNECTED"
    /\ kIn' = <<type>>
    /\ kArrived' = kArrived + 1
    /\ sesState' = IF type = "DISCONNECT"
                   THEN [sesState EXCEPT ![ConnThread] = "DISCONNECTED"] ELSE sesState
    /\ UNCHANGED <<requests, wState, kPc, kWaited, kOut, kRead, kGot>>

\* ---- keepalive_loop ----
\* one tick passes inside session.wait(keepalive)
KeepTick ==
    /\ UNCHANGED keepOthers
    /\ kPc = "keepalive"
    /\ kIn = <<>>
    /\ kWaited < keepalive
    /\ kWaited' = kWaited + 1
    /\ UNCHANGED <<sesState, requests, wState, kPc, kIn, kArrived, kOut, kRead, kGot>>

\* the body of the loop after session.wait has returned; got is the type of
\* the message the wait handled, "none" when it timed out
KeepAfterWait(got) ==
    LET state == IF got = "none" THEN wState ELSE handle_server_state(wState, got)
        reply == IF got = "none" THEN <<>> ELSE handle_server_reply(got)
        status == wait_status(got)
    IN  /\ wState' = state
        /\ kGot' = got
        /\ kWaited' = 0
        /\ IF state = "DISCONNECTED"
           THEN kOut' = kOut \o reply /\ kPc' = "done"
           ELSE IF KeepaliveTimedOut(status)
           THEN kOut' = (kOut \o reply) \o <<TimeoutStatus>> /\ kPc' = "done"
           ELSE kOut' = kOut \o reply /\ kPc' = "keepalive"

\* session.wait(keepalive) returns after keepalive ticks without a message
KeepTimeout ==
    /\ UNCHANGED keepOthers
    /\ kPc = "keepalive"
    /\ kIn = <<>>
    /\ kWaited = keepalive
    /\ KeepAfterWait("none")
    /\ UNCHANGED <<sesState, requests, kIn, kArrived, kRead>>

\* session.wait(keepalive) handles a message that arrived in time
KeepMessage ==
    /\ UNCHANGED keepOthers
    /\ kPc = "keepalive"
    /\ kIn /= <<>>
    /\ KeepAfterWait(Head(kIn))
    /\ kIn' = Tail(kIn)
    /\ UNCHANGED <<sesState, requests, kArrived, kRead>>

\* ---- the client session handles the next message of the worker ----
KeepNextBody == kOut[kRead + 1]

KeepClientRecv ==
    /\ UNCHANGED keepOthers
    /\ kRead < Len(kOut)
    /\ LET st == push(SesRec, Envelope(ConnThread, KeepNextBody))
       IN  /\ sesState' = st.state
           /\ requests' = st.requests
    /\ kRead' = kRead + 1
    /\ UNCHANGED <<wState, kPc, kWaited, kIn, kArrived, kOut, kGot>>

KeepWaits == KeepTick \/ KeepTimeout \/ KeepMessage

KeepNext ==
    \/ \E type \in {"CONNECT", "REQUEST"} : KeepTake(type)
    \/ KeepAgain
    \/ \E type \in ClientTypes : KeepArrive(type)
    \/ KeepTick
    \/ KeepTimeout
    \/ KeepMessage
    \/ KeepClientRecv

\* a step in which session.wait(keepalive) returns without a message
KeepTimeoutStep ==
    /\ kPc = "keepalive"
    /\ kIn = <<>>
    /\ kIn' = <<>>
    /\ kWaited = keepalive
    /\ (kPc' /= kPc \/ kOut' /= kOut \/ kWaited' /= kWaited)

\* a step in which the client session handles a STATUS 408 of the worker
ClientHandlesTimeout ==
    /\ kRead < Len(kOut)
    /\ kRead' = kRead + 1
    /\ KeepNextBody = TimeoutStatus

\* the worker has sent a STATUS 408 that the client session has not handled yet
UnreadTimeout ==
    \E i \in (kRead + 1)..Len(kOut) : kOut[i] = TimeoutStatus

C22_MessageKeepsAlive ==
    [][(kPc = "keepalive" /\ kIn /= <<>> /\ kIn' = Tail(kIn) /\ Head(kIn) /= "DISCONNECT") =>
          /\ kOut' = kOut \o handle_server_reply(Head(kIn))
          /\ kPc' = "keepalive"
          /\ wState' = "CONNECTED"]_vars

\* ------------------------------------------------------------------------
\* Further claims about the controller (Spec)
\* ------------------------------------------------------------------------
\* the children whose data socket was written to in this step
WrittenTo == {p \in Pids : dataSock'[p] > dataSock[p]}

\* the main loop has received a message and picks the child for it
DispatchStep == ctlPc = "recv" /\ ctlPc' /= "recv"

\* C23: for each inbound message the controller takes a child popped from
\* idle_list when there is one; otherwise a newly spawned child, and only when
\* num_children < max_children; otherwise the first child to report on the
\* status socket.  num_children never exceeds max_children.
C23_ChoiceOrder ==
    /\ [](num_children <= max_children)
    /\ [][DispatchStep =>
            IF idle_list /= <<>>
            THEN /\ idle_list' = SubSeq(idle_list, 1, Len(idle_list) - 1)
                 /\ WrittenTo \subseteq {idle_list[Len(idle_list)]}
                 /\ nextPid' = nextPid
                 /\ ctlPc' /= "wait1"
            ELSE IF num_children < max_children
            THEN /\ nextPid' = nextPid + 1
                 /\ WrittenTo \subseteq {nextPid}
                 /\ ctlPc' /= "wait1"
            ELSE /\ ctlPc' = "wait1"
                 /\ WrittenTo = {}
                 /\ nextPid' = nextPid]_vars
    /\ [][(ctlPc = "wait1" /\ ctlPc' = "wait2") => ret_child' = Head(statusSock)]_vars
    /\ [][(ctlPc = "wait2" /\ ctlPc' /= "wait2") =>
            WrittenTo \subseteq {ret_child} /\ nextPid' = nextPid]_vars

\* with max_children children, none idle, the message in hand has been kept
\* for the first child that reported
C23_Witness ==
    /\ ctlPc = "wait2"
    /\ num_children = max_children
    /\ idle_list = <<>>
    /\ Len(active_list) = max_children
    /\ ret_child \in Range(active_list)

\* C24: when a message arrives while every worker is active and
\* num_children = max_children, it is written to no one until a worker has
\* reported on the status socket, and, the busy workers finishing their
\* sessions, it is written to a worker in the end.
C24_WaitingMessageDelivered ==
    /\ [][(ctlPc = "wait1" /\ statusSock = <<>>) => (WrittenTo = {} /\ ctlPc' = "wait1")]_vars
    /\ (ctlPc = "wait1" ~> ctlPc \notin {"wait1", "wait2"})

\* the child the main loop has chosen for the message it is about to write
ChosenChild ==
    IF ctlPc = "wait2" THEN ret_child
    ELSE IF idle_list /= <<>> THEN idle_list[Len(idle_list)]
    ELSE nextPid

\* the step in which write_child fails
WriteFailStep == ctlPc \in {"recv", "wait2"} /\ lastOp' = "writefail"

\* C25: when writing a message to the chosen child fails, the child is killed
\* and removed from idle_list, active_list and pid_map, the message is
\* dropped, and the main loop goes on with its next iterations.
C25_WriteFailureGoesOn ==
    /\ [][WriteFailStep =>
            /\ proc'[ChosenChild] = "zombie"
            /\ ChosenChild \notin pid_map'
            /\ ChosenChild \notin Range(idle_list') \cup Range(active_list')
            /\ WrittenTo = {}
            /\ ctlPc' = "reap"]_vars
    /\ [][(lastOp = "writefail" /\ ctlPc = "reap" /\ ctlPc' /= "reap")
            => ctlPc' = "check"]_vars

\* ------------------------------------------------------------------------
\* The controller's routers and its shutdown (server.py)
\* ------------------------------------------------------------------------
\* the router targets the configuration can name
Routers == {"router@a/router", "router@b/router"}

\* osrf.conf.get('routers.router'), reduced to the targets that serve this service
RouterConfigs == {<<"router@a/router">>, <<"router@a/router", "router@b/router">>}

\* how often target occurs in a list of targets
RECURSIVE CountIn(_, _)
CountIn(list, target) ==
    IF list = <<>> THEN 0
    ELSE (IF Head(list) = target THEN 1 ELSE 0) + CountIn(Tail(list), target)

\* Controller.__init__: self.routers = []; nothing sent, nobody killed
ShutInit ==
    /\ routers = <<>>
    /\ regSent = [r \in Routers |-> 0]
    /\ unregSent = [r \in Routers |-> 0]
    /\ killSent = {}

\* the controller runs its main loop
MainLoop == {"reap", "check", "recv", "wait1", "wait2"}

\* Controller.cleanup_routers(): one unregister per entry of self.routers
cleanup_routers(unreg) == [r \in Routers |-> unreg[r] + CountIn(routers, r)]

\* cleanup(): "for child in self.idle_list + self.active_list: ...
\* os.kill(child.pid, signal.SIGKILL)"; the loop ends at the first os.kill
\* that raises
RECURSIVE kill_children(_, _, _)
kill_children(pr, list, killed) ==
    IF list = <<>> THEN [proc |-> pr, killed |-> killed, exc |-> FALSE]
    ELSE IF KillRaises(pr, Head(list)) THEN [proc |-> pr, killed |-> killed, exc |-> TRUE]
    ELSE kill_children([pr EXCEPT ![Head(list)] = "zombie"], Tail(list),
                       killed \cup {Head(list)})

\* Controller.reap_children(done = True): blocking waitpid until it raises
\* OSError (no child left).  While a child is alive and none is dead the
\* call blocks: the record is returned with that child still alive.
RECURSIVE reap_children_done(_)
reap_children_done(c) ==
    IF Zombies(c.proc) /= {}
    THEN LET pid == CHOOSE p \in Zombies(c.proc) : \A q \in Zombies(c.proc) : p <= q
             c1 == [c EXCEPT !.proc = [c.proc EXCEPT ![pid] = "reaped"], !.nc = c.nc - 1]
             c2 == cleanup_child(c1, pid, FALSE)
         IN  IF c2.exc THEN c2 ELSE reap_children_done(c2)
    ELSE c

\* Controller.cleanup(): cleanup_routers, the status sockets are shut down
\* and closed, every listed child is killed, reap_children(True), os._exit(0).
\* end is "gone" after os._exit(0), "raised" when an exception left cleanup,
\* "blocked" when waitpid waits for a child nobody has killed.
cleanup(c, unreg, killed) ==
    LET k == kill_children(c.proc, c.idle \o c.active, killed)
        c1 == [c EXCEPT !.proc = k.proc]
        r == IF k.exc THEN [c1 EXCEPT !.exc = TRUE] ELSE reap_children_done(c1)
    IN  [c |-> r, unreg |-> cleanup_routers(unreg), killed |-> k.killed,
         end |-> IF r.exc THEN "raised" ELSE IF Live(r.proc) /= {} THEN "blocked" ELSE "gone"]

\* cleanup() called once more after a cleanup() that raised: cleanup_routers
\* runs again, then read_status.shutdown raises on the closed socket
cleanup_again(x) == [x EXCEPT !.unreg = cleanup_routers(x.unreg)]

\* the controller's fields after cleanup
ShutAssign(x) ==
    /\ num_children' = x.c.nc
    /\ idle_list' = x.c.idle
    /\ active_list' = x.c.active
    /\ pid_map' = x.c.pmap
    /\ proc' = x.c.proc
    /\ nextPid' = x.c.np
    /\ unregSent' = x.unreg
    /\ killSent' = x.killed
    /\ ctlPc' = x.end

\* run(), up to the main loop: spawn_children, handle_signals,
\* register_routers
ShutStart ==
    /\ UNCHANGED shutOthers
    /\ ctlPc = "start"
    /\ CtlAssign(spawn_children(CtlRec), "reap")
    /\ \E cfg \in RouterConfigs :
         /\ routers' = cfg
         /\ regSent' = [r \in Routers |-> CountIn(cfg, r)]
    /\ lastOp' = "start"
    /\ UNCHANGED <<statusSock, dataSock, childReqs, ret_child, unregSent, killSent>>

\* SIGINT or SIGTERM while the main loop runs: the handler calls cleanup().
\* An exception that leaves cleanup() leaves the handler and is raised in
\* the main loop, inside run's try: "except Exception", then
\* "finally: self.cleanup()".
CtlSignal ==
    /\ UNCHANGED shutOthers
    /\ ctlPc \in MainLoop
    /\ LET x == cleanup(CtlRec, unregSent, killSent)
       IN  ShutAssign(IF x.end = "raised" THEN cleanup_again(x) ELSE x)
    /\ lastOp' = "signal"
    /\ UNCHANGED <<routers, regSent, statusSock, dataSock, childReqs, ret_child>>

\* an exception has left the main loop: "finally: self.cleanup()"
CtlFinally ==
    /\ UNCHANGED shutOthers
    /\ ctlPc = "exited"
    /\ ShutAssign(cleanup(CtlRec, unregSent, killSent))
    /\ lastOp' = "finally"
    /\ UNCHANGED <<routers, regSent, statusSock, dataSock, childReqs, ret_child>>

ShutNext ==
    \/ ShutStart
    \/ CtlReap
    \/ CtlCheckStatus
    \/ CtlDispatchIdle
    \/ CtlDispatchSpawn
    \/ CtlDispatchWait
    \/ CtlWaitFirst
    \/ CtlWaitRest
    \/ \E p \in Pids : ChildTake(p)
    \/ \E p \in Pids : ChildDone(p)
    \/ \E p \in Pids : ChildDie(p)
    \/ CtlSignal
    \/ CtlFinally

\* ------------------------------------------------------------------------
\* Claims on the controller's exit (SpecShut)
\* ------------------------------------------------------------------------
\* C26: the controller leaves its main loop only when SIGINT or SIGTERM is
\* delivered; messages, status reports, child deaths, reaps and write
\* failures never make it leave.
C26_ExitsOnlyOnSignal ==
    [][(ctlPc \in MainLoop /\ ctlPc' \notin MainLoop) => lastOp' = "signal"]_vars

\* cleanup() runs
CleanupStep == lastOp' \in {"signal", "finally"} /\ ctlPc' /= ctlPc

\* C28: on shutdown every router that was sent a register is sent exactly
\* one unregister, every child in idle_list or active_list is sent SIGKILL,
\* all children have been reaped before the process exits, and cleanup
\* terminates.
C28_CleanShutdown ==
    [][CleanupStep =>
         /\ \A r \in Routers : unregSent'[r] = regSent[r]
         /\ Range(idle_list) \cup Range(active_list) \subseteq killSent'
         /\ \A p \in Pids : proc'[p] \in {"none", "reaped"}
         /\ ctlPc' = "gone"]_vars

\* ------------------------------------------------------------------------
\* The bytes the controller writes to a worker (server.py, net.py)
\* ------------------------------------------------------------------------
SIZE_PAD == 12
MaxBody == 3         \* bytes in the body of a NetworkMessage
ChunkSize == 4       \* bytes one recv on the data socket returns at most
SockBuf == 10        \* bytes the data socket holds between a send and a recv

BodyBytes == {"a", "b"}
FrameBodies == UNION {[1..n -> BodyBytes] : n \in 0..MaxBody}
FrameMsgs == [recipient : {"x", "y"}, thread : {"1", "2"}, body : FrameBodies]

\* NetworkMessage.to_xml(): the serialized pyxmpp Message with its to
\* attribute, its body and its thread; one element stands for one piece of
\* markup or one byte of content
to_xml(msg) ==
    <<"<message to=", msg.recipient, ">", "<body>">> \o msg.body
        \o <<"</body>", "<thread>", msg.thread, "</thread>", "</message>">>

\* str(n) for a natural number
RECURSIVE Str(_)
Str(n) ==
    IF n < 10 THEN <<n>> ELSE Append(Str(n \div 10), n % 10)

\* text.rjust(width)
RECURSIVE Rjust(_, _)
Rjust(text, width) ==
    IF Len(text) >= width THEN text ELSE Rjust(<<" ">> \o text, width)

\* write_child: "child.write_data.sendall(data)", the bytes handed to the socket
sendall_bytes(data) == data

\* socket.sendall(data) calls send until everything is written; one send
\* passes as much of what is left as the socket's buffer has room for
Accepted(data, wire) ==
    IF Len(data) <= SockBuf - Len(wire) THEN Len(data) ELSE SockBuf - Len(wire)

FrameInit ==
    /\ fPc = "recv"
    /\ fData = <<>>
    /\ fWire = <<>>
    /\ fGot = <<>>
    /\ fLeft = <<>>

\* main loop: "data = self.osrf_handle.recv(-1).to_xml()", a child is
\* chosen, "self.write_child(child, data)"
FrameWrite ==
    /\ UNCHANGED frameOthers
    /\ fPc = "recv"
    /\ fLeft = <<>>
    /\ Len(fWire) < SockBuf
    /\ \E msg \in FrameMsgs :
         /\ fData' = to_xml(msg)
         /\ LET k == Accepted(sendall_bytes(to_xml(msg)), fWire)
            IN  /\ fWire' = fWire \o SubSeq(sendall_bytes(to_xml(msg)), 1, k)
                /\ fLeft' = SubSeq(sendall_bytes(to_xml(msg)), k + 1, Len(to_xml(msg)))
    /\ fGot' = <<>>
    /\ fPc' = "written"

\* write_child: sendall goes on with the bytes the socket has not taken yet
FrameSendMore ==
    /\ UNCHANGED frameOthers
    /\ fLeft /= <<>>
    /\ Len(fWire) < SockBuf
    /\ LET k == Accepted(fLeft, fWire)
       IN  /\ fWire' = fWire \o SubSeq(fLeft, 1, k)
           /\ fLeft' = SubSeq(fLeft, k + 1, Len(fLeft))
    /\ UNCHANGED <<fPc, fData, fGot>>

\* Child.run: "buf = self.read_data.recv(2048)", "data += buf"
FrameRead ==
    /\ UNCHANGED frameOthers
    /\ fPc \in {"written", "reading"}
    /\ fWire /= <<>>
    /\ LET n == IF Len(fWire) < ChunkSize THEN Len(fWire) ELSE ChunkSize
       IN  /\ fGot' = fGot \o SubSeq(fWire, 1, n)
           /\ fWire' = SubSeq(fWire, n + 1, Len(fWire))
    /\ fPc' = "reading"
    /\ UNCHANGED <<fData, fLeft>>

\* Child.run: recv raises EAGAIN, the read loop ends with data complete
FrameEagain ==
    /\ UNCHANGED frameOthers
    /\ fPc = "reading"
    /\ fWire = <<>>
    /\ fPc' = "read"
    /\ UNCHANGED <<fData, fWire, fGot, fLeft>>

\* the worker has handled the message; the controller takes the next one
FrameDone ==
    /\ UNCHANGED frameOthers
    /\ fPc = "read"
    /\ fPc' = "recv"
    /\ fData' = <<>>
    /\ fGot' = <<>>
    /\ UNCHANGED <<fWire, fLeft>>

FrameNext ==
    \/ FrameWrite
    \/ FrameSendMore
    \/ FrameRead
    \/ FrameEagain
    \/ FrameDone

\* ------------------------------------------------------------------------
\* Claims on the data socket (SpecFrame)
\* ------------------------------------------------------------------------
\* C27: every message the controller writes to a worker's data socket is
\* one frame: a 12-character right-justified decimal length, then exactly
\* that many bytes of payload, the XML serialization of the NetworkMessage.
C27_LengthPrefixedFrame ==
    fPc = "written" => fWire = Rjust(Str(Len(fData)), SIZE_PAD) \o fData

\* C36: for every interleaving of the controller's write and the worker's
\* reads, the bytes the worker hands to the message layer for one dispatch
\* are exactly the complete payload of one controller message, never a
\* prefix of it and never two messages joined.
C36_WholeMessageRead ==
    fPc = "read" => fGot = fData

\* ------------------------------------------------------------------------
\* Claims on the answers to one REQUEST (SpecApp)
\* ------------------------------------------------------------------------
\* the messages sent for the REQUEST in hand, in the order they went out
RECURSIVE FlatSent(_)
FlatSent(lists) ==
    IF lists = <<>> THEN <<>> ELSE Head(lists) \o FlatSent(Tail(lists))

\* one RESULT per value, in order
ResultsOf(trace, values) == [i \in 1..Len(values) |-> ResultMsg(trace, values[i])]

\* the REQUEST in hand names a registered method that is not atomic
StreamingCall == methods[appCall.name].registered /\ ~methods[appCall.name].atomic

\* C29: for every REQUEST all RESULTs of its threadTrace go out before its
\* terminating STATUS and nothing goes out after it; a non-atomic call sends
\* exactly one RESULT per respond() call, in call order, and COMPLETE when
\* the handler has returned (reverse of <<1, 2>> sends 2, then 1, then
\* COMPLETE).
C29_ResultsBeforeStatus ==
    /\ [](\A i \in 1..Len(FlatSent(appSent)) :
              /\ FlatSent(appSent)[i].trace = appCall.trace
              /\ FlatSent(appSent)[i].type = "STATUS" =>
                     i = Len(FlatSent(appSent)) /\ appPc = "idle")
    /\ []((StreamingCall /\ appPc = "handler") =>
              FlatSent(appSent) = ResultsOf(appCall.trace, responded))
    /\ [][(StreamingCall /\ appPc = "handler" /\ appOutcome' = "returned") =>
              \E ret \in {<<>>} \cup {<<v>> : v \in RespValues} :
                  FlatSent(appSent') =
                      ResultsOf(appCall.trace, responded \o ret)
                          \o <<StatusMsg(appCall.trace, OSRF_STATUS_COMPLETE)>>]_vars
    /\ [][(StreamingCall /\ appPc = "handler" /\ appOutcome' = "returned"
              /\ responded = reverse(<<1, 2>>) /\ Len(FlatSent(appSent')) = 3) =>
              FlatSent(appSent') =
                  <<ResultMsg(appCall.trace, 2), ResultMsg(appCall.trace, 1),
                    StatusMsg(appCall.trace, OSRF_STATUS_COMPLETE)>>]_vars

\* a non-atomic call whose handler responded as reverse does on <<1, 2>> and
\* returned nothing: RESULT 2, RESULT 1 and COMPLETE went out, in three sends
C29_Witness ==
    /\ StreamingCall /\ methods[appCall.name].stream
    /\ AppAnswered /\ appOutcome = "returned"
    /\ responded = reverse(<<1, 2>>)
    /\ appSent = << <<ResultMsg(appCall.trace, 2)>>, <<ResultMsg(appCall.trace, 1)>>,
                    <<StatusMsg(appCall.trace, OSRF_STATUS_COMPLETE)>> >>

\* the terminating statuses sent for the REQUEST in hand
StatusesSent == SelectSeq(FlatSent(appSent), LAMBDA m : m.type = "STATUS")

\* handle_request takes a REQUEST
RequestStep == appPc = "idle" /\ methods' = methods /\ appVars' /= appVars

\* C30: every REQUEST is answered with exactly one terminating STATUS on its
\* threadTrace: 404 when the method is not registered, and then no handler
\* is invoked; 500 when the handler raises; 205 otherwise.
C30_OneTerminatingStatus ==
    /\ [](appPc = "handler" => StatusesSent = <<>>)
    /\ [](AppAnswered =>
            StatusesSent = <<StatusMsg(appCall.trace,
                               CASE appOutcome = "notfound" -> OSRF_STATUS_NOTFOUND
                                 [] appOutcome = "raised" -> OSRF_STATUS_INTERNALSERVERERROR
                                 [] OTHER -> OSRF_STATUS_COMPLETE)>>)
    /\ [][RequestStep =>
            IF methods[appCall'.name].registered
            THEN appPc' = "handler" /\ appSent' = <<>>
            ELSE appPc' = "idle" /\ appOutcome' = "notfound" /\ responded' = <<>>]_vars
    /\ [][(appPc = "handler" /\ appPc' = "idle") => appOutcome' \in {"raised", "returned"}]_vars

\* a REQUEST for a name nobody registered was answered with STATUS 404 alone
C30_Witness ==
    /\ AppAnswered /\ appOutcome = "notfound"
    /\ ~methods[appCall.name].registered
    /\ appSent = << <<StatusMsg(appCall.trace, OSRF_STATUS_NOTFOUND)>> >>

\* C33: after the reap step of every main-loop iteration num_children is at
\* least min_children: the children that died have been reaped and replaced
\* up to min_children, whether one, several or all of them died.
C33_RespawnedToMin ==
    ctlPc = "check" => num_children >= min_children

\* the controller reads the records waiting in the status socket
ReadsStatus == statusSock /= <<>> /\ statusSock' /= statusSock

\* C34: status reports never interleave: every record the controller reads
\* from the status socket is the pid of one worker that finished a session,
\* and each record moves exactly that worker from active_list to idle_list,
\* or hands it to the waiting dispatch.
C34_EveryReportTakesEffect ==
    /\ [](\A i \in 1..Len(statusSock) : proc[statusSock[i]] /= "none")
    /\ [][(ReadsStatus /\ ctlPc = "check") =>
            /\ ctlPc' = "recv"
            /\ \A i \in 1..Len(statusSock) : statusSock[i] \in Range(idle_list')]_vars
    /\ [][(ReadsStatus /\ ctlPc = "wait1") =>
            ctlPc' = "wait2" /\ ret_child' = Head(statusSock)]_vars

\* the worker is in a session, or has a message waiting that it has not read
InSession(p) == proc[p] = "busy" \/ dataSock[p] > 0

\* C35: the controller never writes a new inbound message to a worker that is
\* still processing a session: every child in idle_list has finished and
\* reported its last session, so has the child chosen by the blocking status
\* wait, and every write to a data socket goes to a worker not in a session.
C35_NoWriteToBusyWorker ==
    /\ [](\A i \in 1..Len(idle_list) : ~InSession(idle_list[i]))
    /\ [](ret_child /= 0 => ~InSession(ret_child))
    /\ [][\A p \in Pids : dataSock'[p] > dataSock[p] => ~InSession(p)]_vars

\* a worker that has served a session is given its next message while
\* another worker is still in a session
C35_Witness ==
    /\ lastOp = "dispatch"
    /\ \E p, q \in Pids :
         /\ p /= q
         /\ childReqs[p] >= 1 /\ proc[p] = "waiting" /\ dataSock[p] = 1
         /\ proc[q] = "busy"

\* ------------------------------------------------------------------------
\* Claims on the translator's reply loop (SpecHttp)
\* ------------------------------------------------------------------------
\* the translator is in its reply loop for a body that is not a lone CONNECT
InReplyLoop == hPc = "recv" /\ ~parse_request(hReq.body).connect_only

\* the translator takes the next reply from the bus
ReplyStep == hPc = "recv" /\ hReplies' /= hReplies

\* the last message of a reply body
LastOf(body) == JsonParse(body)[Len(JsonParse(body))]

\* the reply ends in a STATUS that is neither CONTINUE nor TIMEOUT
Completing(body) == LastOf(body) \in StatusTokens \ {"S100", "S408"}

\* C37: after sending a body that is neither a lone CONNECT nor a lone
\* DISCONNECT the translator keeps receiving replies until one whose STATUS
\* is neither CONTINUE nor TIMEOUT and then ends the response with OK; a
\* reply whose status is TIMEOUT evicts the thread's cache entry and adds
\* nothing to the response; when the wait for a reply ends without one
\* before completion the result is 504 (404 when the bus reports that the
\* recipient does not exist).
C37_ReplyLoop ==
    [][InReplyLoop =>
         /\ (ReplyStep /\ Completing(Head(bus).body)) =>
               hPc' = "done" /\ hStatus' = HTTP_OK
         /\ (ReplyStep /\ ~Completing(Head(bus).body)) =>
               hPc' = "recv" /\ hStatus' = hStatus
         /\ (ReplyStep /\ LastOf(Head(bus).body) = "S408") =>
               /\ cache'[Head(bus).thread] = NoEntry
               /\ hWritten' = hWritten /\ hMessages' = hMessages /\ hFrom' = hFrom
         /\ (~ReplyStep /\ hPc' = "done") =>
               /\ ~hComplete
               /\ hStatus' \in {HTTP_GATEWAY_TIME_OUT, HTTP_NOT_FOUND}
               /\ hWritten' = hWritten
      ]_vars

\* a CONTINUE status and a TIMEOUT status were passed over and the COMPLETE
\* status ended the response with OK
C37_Witness ==
    /\ hPc = "done" /\ hStatus = HTTP_OK
    /\ ~parse_request(hReq.body).connect_only
    /\ hReplies = <<JsonArray(<<"S100">>), JsonArray(<<"S408">>), JsonArray(<<"S205">>)>>

\* the request in hand lacks a body, names both or neither of to and
\* service, or names a to address that fails the affinity check
Rejectable(req, c) ==
    \/ req.body = <<>>
    \/ req.service /\ req.to /= NoHeader
    \/ ~req.service /\ req.to = NoHeader
    \/ ~req.service /\ req.to /= NoHeader /\
         ~(c[req.thread] /= NoEntry /\ c[req.thread].ip = req.host
              /\ c[req.thread].jid = req.to)

\* C38: a request rejected with 400 (no body, both or neither of
\* X-OpenSRF-to and X-OpenSRF-service, or a to address that fails the
\* affinity check) sends no message on the bus and changes no cache entry;
\* every request with one of these faults that asks for more than the
\* headers is rejected with 400.
C38_RejectedLeavesNoTrace ==
    [][HttpTakesRequest =>
         /\ hStatus' = HTTP_BAD_REQUEST =>
               hSent' = <<>> /\ cache' = cache /\ bus' = bus /\ hPc' = "done"
         /\ (~hReq'.header_only /\ Rejectable(hReq', cache)) =>
               hStatus' = HTTP_BAD_REQUEST
      ]_vars

\* a request naming a drone other than the one cached for its thread has
\* been answered 400 with a message still waiting on the bus
C38_Witness ==
    /\ hPc = "done" /\ hStatus = HTTP_BAD_REQUEST
    /\ hReq.to /= NoHeader /\ ~hReq.service /\ hReq.body /= <<>>
    /\ cache[hReq.thread] /= NoEntry /\ cache[hReq.thread].jid /= hReq.to
    /\ hSent = <<>> /\ bus /= <<>>

\* the step uses the message it takes from the bus for the request in hand:
\* it writes its body or keeps it for the response, caches its sender or
\* completes the request with its status
TreatedAsReply ==
    /\ ReplyStep
    /\ \/ hWritten' /= hWritten
       \/ hMessages' /= hMessages
       \/ hFrom' /= hFrom
       \/ cache'[hReq.thread] /= cache[hReq.thread]
       \/ hComplete' /= hComplete

\* C40: every bus message the translator treats as a reply to an HTTP
\* request (writing its body, caching its sender as the drone of the
\* request's thread, or completing the request with its status) carries the
\* thread of that request; a message of another thread that arrives after
\* the stale-message drain is never attributed to the request.
C40_RepliesOfOwnThread ==
    [][TreatedAsReply => Head(bus).thread = hReq.thread]_vars

\* ------------------------------------------------------------------------
\* One worker's main loop and its session cache (server.py Child, ses.py)
\* ------------------------------------------------------------------------
MaxRunThread == 3    \* threads of the sessions a worker is given

RunThreads == 1..MaxRunThread

\* the osrfMessage types bundled in the NetworkMessage that opens a session
RunBodies ==
    {<<"REQUEST">>, <<"CONNECT">>, <<"CONNECT", "REQUEST">>, <<"REQUEST", "DISCONNECT">>,
     <<"CONNECT", "REQUEST", "DISCONNECT">>}

NoSession == [thread |-> 0, state |-> "DISCONNECTED"]

\* Session.find_or_create(thread): the cached session of the thread, or a new
\* ServerSession entered in the cache
find_or_create(sc, thread) == sc \cup {thread}

\* faulty variant: the entry is left in the cache
session_cleanup_keep(sc, thread) == sc

\* Session.cleanup(): "del Session.session_cache[self.thread]"
session_cleanup(sc, thread) == sc \ {thread}

\* stack.push: "for msg in omessages: handle_message(ses, msg)", the state
\* of the server session afterwards
RECURSIVE handle_messages(_, _)
handle_messages(state, body) ==
    IF body = <<>> THEN state
    ELSE handle_messages(handle_server_state(state, Head(body)), Tail(body))

\* faulty variant: the worker never leaves its loop
LastRequest_never(n) == FALSE

\* Child.run: "if self.num_requests == self.controller.max_requests: break"
LastRequest(n) == n = max_requests

\* Child.__init__: num_requests = 0; the process starts with an empty cache
RunInit ==
    /\ session_cache = {}
    /\ num_requests = 0
    /\ runPc = "read"
    /\ runSes = NoSession
    /\ runWaited = 0
    /\ runReports = 0
    /\ runHook = FALSE
    /\ runServed = <<>>

\* keepalive_loop has left its while loop: session.cleanup(); then Child.run
\* counts the session and either breaks (child_exit(), the process exits)
\* or calls send_status()
RunFinish(sc, thread, how) ==
    /\ session_cache' = session_cleanup(sc, thread)
    /\ runSes' = NoSession
    /\ runWaited' = 0
    /\ runServed' = Append(runServed, [thread |-> thread, how |-> how])
    /\ num_requests' = num_requests + 1
    /\ IF LastRequest(num_requests + 1)
       THEN runPc' = "exited" /\ runHook' = TRUE /\ runReports' = runReports
       ELSE runPc' = "read" /\ runHook' = runHook /\ runReports' = runReports + 1

\* Child.run: data is read from the data socket and pushed; the session is
\* found or created, its messages are handled, keepalive_loop is entered
RunPush(thread, body) ==
    /\ UNCHANGED runOthers
    /\ runPc = "read"
    /\ LET sc == find_or_create(session_cache, thread)
           state == handle_messages("DISCONNECTED", body)
       IN  IF state = "CONNECTED"
           THEN /\ session_cache' = sc
                /\ runSes' = [thread |-> thread, state |-> state]
                /\ runPc' = "keepalive"
                /\ runWaited' = 0
                /\ UNCHANGED <<num_requests, runReports, runHook, runServed>>
           ELSE RunFinish(sc, thread,
                          IF body[Len(body)] = "DISCONNECT" THEN "disconnect" ELSE "stateless")

\* one tick passes inside session.wait(keepalive)
RunTick ==
    /\ UNCHANGED runOthers
    /\ runPc = "keepalive"
    /\ runWaited < keepalive
    /\ runWaited' = runWaited + 1
    /\ UNCHANGED <<session_cache, num_requests, runPc, runSes, runReports, runHook, runServed>>

\* keepalive_loop: session.wait(keepalive) has returned; got is the type of
\* the message it handled, "none" when the keepalive time passed without one
RunWait(got) ==
    /\ UNCHANGED runOthers
    /\ runPc = "keepalive"
    /\ got = "none" => runWaited = keepalive
    /\ LET state == IF got = "none" THEN runSes.state
                    ELSE handle_server_state(runSes.state, got)
       IN  IF state = "DISCONNECTED"
           THEN RunFinish(session_cache, runSes.thread, "disconnect")
           ELSE IF KeepaliveTimedOut(wait_status(got))
           THEN RunFinish(session_cache, runSes.thread, "timeout")
           ELSE /\ runSes' = [runSes EXCEPT !.state = state]
                /\ runWaited' = 0
                /\ UNCHANGED <<session_cache, num_requests, runPc, runReports, runHook,
                               runServed>>

RunNext ==
    \/ \E thread \in RunThreads, body \in RunBodies : RunPush(thread, body)
    \/ RunTick
    \/ \E got \in {"none", "REQUEST", "DISCONNECT"} : RunWait(got)

\* ------------------------------------------------------------------------
\* Claims on one worker (SpecRun)
\* ------------------------------------------------------------------------
\* a session ends in this step
SessionEnds == num_requests' = num_requests + 1

MaxFkGot == 2        \* messages the controller receives

CtlProc == 0
FkWorkers == 1..max_children
FkProcs == {CtlProc} \cup FkWorkers

NoHandle == <<"none", 0>>
BootConn == <<"boot", 0>>
Listener == <<"listener", 0>>
Drone(p) == <<"drone", p>>
FkConns == {BootConn, Listener} \cup {Drone(p) : p \in FkWorkers}

\* handle.disconnect(): the stream of the connection is closed at the
\* server, whichever process holds the socket
disconnect(conns, handle) ==
    IF handle = NoHandle THEN conns ELSE [conns EXCEPT ![handle] = "closed"]

\* the disconnect() calls made so far, with one more
Disconnected(disc, who, handle) ==
    IF handle = NoHandle THEN disc ELSE disc \cup {<<who, handle>>}

\* osrf.net.clear_network_handle() in process who: "if handle:
\* handle.disconnect(); del THREAD_SESSIONS[...]"
clear_network_handle(st, who) ==
    [handles |-> [st.handles EXCEPT ![who] = NoHandle],
     conns |-> disconnect(st.conns, st.handles[who]),
     disc |-> Disconnected(st.disc, who, st.handles[who])]

\* System.net_connect(resource = ...) in process who: nothing when the
\* process has a handle, else a new connection becomes its handle
net_connect(st, who, conn) ==
    IF st.handles[who] /= NoHandle THEN st
    ELSE [st EXCEPT !.handles = [st.handles EXCEPT ![who] = conn],
                    !.conns = [st.conns EXCEPT ![conn] = "open"]]

FkRec == [handles |-> fkHandle, conns |-> fkConn, disc |-> fkDisc]

FkAssign(st) ==
    /\ fkHandle' = st.handles
    /\ fkConn' = st.conns
    /\ fkDisc' = st.disc

\* the workers that exist
FkLive == {p \in FkWorkers : fkStage[p] \in {"forked", "running"}}

\* the process that starts the service is connected to the network
ForkInit ==
    /\ fkPc = "boot"
    /\ fkHandle = [p \in FkProcs |-> IF p = CtlProc THEN BootConn ELSE NoHandle]
    /\ fkConn = [c \in FkConns |-> IF c = BootConn THEN "open" ELSE "unused"]
    /\ fkStage = [p \in FkWorkers |-> "none"]
    /\ fkDisc = {}
    /\ fkGot = 0

\* Controller.run: "get_network_handle().disconnect()",
\* "clear_network_handle()"
RunClear ==
    /\ UNCHANGED forkOthers
    /\ fkPc = "boot"
    /\ LET st == [FkRec EXCEPT !.conns = disconnect(fkConn, fkHandle[CtlProc]),
                               !.disc = Disconnected(fkDisc, CtlProc, fkHandle[CtlProc])]
       IN  FkAssign(clear_network_handle(st, CtlProc))
    /\ fkPc' = "spawn"
    /\ UNCHANGED <<fkStage, fkGot>>

\* spawn_child, parent side: os.fork() copies THREAD_SESSIONS to the child
Fork(p) ==
    /\ fkStage[p] = "none"
    /\ fkStage' = [fkStage EXCEPT ![p] = "forked"]
    /\ fkHandle' = [fkHandle EXCEPT ![p] = fkHandle[CtlProc]]

\* Controller.run: spawn_children() forks one of the first min_children workers
SpawnInitial(p) ==
    /\ UNCHANGED forkOthers
    /\ fkPc = "spawn"
    /\ Cardinality(FkLive) < min_children
    /\ Fork(p)
    /\ UNCHANGED <<fkPc, fkConn, fkDisc, fkGot>>

\* Controller.run: net_connect(resource = '%s_listener'), the main loop begins
RunConnect ==
    /\ UNCHANGED forkOthers
    /\ fkPc = "spawn"
    /\ Cardinality(FkLive) >= min_children
    /\ FkAssign(net_connect(FkRec, CtlProc, Listener))
    /\ fkPc' = "loop"
    /\ UNCHANGED <<fkStage, fkGot>>

\* main loop: "data = self.osrf_handle.recv(-1).to_xml()" on a listener
\* connection that is open
ListenerRecv ==
    /\ UNCHANGED forkOthers
    /\ fkPc = "loop"
    /\ fkConn[fkHandle[CtlProc]] = "open"
    /\ fkGot < MaxFkGot
    /\ fkGot' = fkGot + 1
    /\ UNCHANGED <<fkPc, fkHandle, fkConn, fkStage, fkDisc>>

\* main loop: no idle child, "child = self.spawn_child(True)"
SpawnOnDemand(p) ==
    /\ UNCHANGED forkOthers
    /\ fkPc = "loop"
    /\ fkGot > 0
    /\ Cardinality(FkLive) < max_children
    /\ Fork(p)
    /\ UNCHANGED <<fkPc, fkConn, fkDisc, fkGot>>

\* spawn_child, child side: Child.init() is clear_network_handle() and
\* net_connect(resource = '%s_drone')
ChildInit(p) ==
    /\ UNCHANGED forkOthers
    /\ fkStage[p] = "forked"
    /\ FkAssign(net_connect(clear_network_handle(FkRec, p), p, Drone(p)))
    /\ fkStage' = [fkStage EXCEPT ![p] = "running"]
    /\ UNCHANGED <<fkPc, fkGot>>

\* spawn_child, child side: after run(), "get_network_handle().disconnect()"
\* and os._exit(0)
ChildExit(p) ==
    /\ UNCHANGED forkOthers
    /\ fkStage[p] = "running"
    /\ fkConn' = disconnect(fkConn, fkHandle[p])
    /\ fkDisc' = Disconnected(fkDisc, p, fkHandle[p])
    /\ fkStage' = [fkStage EXCEPT ![p] = "exited"]
    /\ UNCHANGED <<fkPc, fkHandle, fkGot>>

\* reap_children: the exited worker is reaped, its slot is free again
ForkReap(p) ==
    /\ UNCHANGED forkOthers
    /\ fkPc = "loop"
    /\ fkStage[p] = "exited"
    /\ fkStage' = [fkStage EXCEPT ![p] = "none"]
    /\ fkHandle' = [fkHandle EXCEPT ![p] = NoHandle]
    /\ fkConn' = [fkConn EXCEPT ![Drone(p)] = "unused"]
    /\ fkDisc' = {d \in fkDisc : d[1] /= p}
    /\ UNCHANGED <<fkPc, fkGot>>

ForkNext ==
    \/ RunClear
    \/ \E p \in FkWorkers : SpawnInitial(p)
    \/ RunConnect
    \/ ListenerRecv
    \/ \E p \in FkWorkers : SpawnOnDemand(p)
    \/ \E p \in FkWorkers : ChildInit(p)
    \/ \E p \in FkWorkers : ChildExit(p)
    \/ \E p \in FkWorkers : ForkReap(p)

\* C39: a worker forked on demand from the main loop, when the controller
\* already holds its listener transport, never sends on or disconnects the
\* listener connection: child initialisation opens the worker's own drone
\* transport and leaves the listener connection usable by the controller.
C39_ListenerLeftAlone ==
    /\ \A d \in fkDisc : d[2] = Listener => d[1] = CtlProc
    /\ fkPc = "loop" => fkConn[Listener] = "open"
    /\ \A p \in FkWorkers :
         fkStage[p] = "running" => fkHandle[p] = Drone(p) /\ fkConn[Drone(p)] = "open"

\* ------------------------------------------------------------------------
\* Specifications
\* ------------------------------------------------------------------------
Init ==
    /\ CtlInit /\ SesInit /\ AppInit /\ HttpInit /\ JsonInit /\ ConnInit /\ KeepInit
    /\ ShutInit /\ FrameInit /\ ForkInit /\ RunInit
Next == CtlNext
Spec == Init /\ [][Next]_vars

\* the controller's steps: it runs whenever it is not blocked in a system call
CtlSteps ==
    \/ CtlStart
    \/ CtlReap
    \/ CtlCheckStatus
    \/ CtlDispatchWait
    \/ CtlWaitFirst
    \/ CtlWaitRest

\* the controller and its workers when no worker dies before its time
CtlNextAlive ==
    \/ CtlStart
    \/ CtlReap
    \/ CtlCheckStatus
    \/ CtlDispatchIdle
    \/ CtlDispatchSpawn
    \/ CtlDispatchWait
    \/ CtlWaitFirst
    \/ CtlWaitRest
    \/ \E p \in Pids : ChildTake(p)
    \/ \E p \in Pids : ChildDone(p)

\* the controller runs, and every worker reads its data socket and finishes
\* the session it is busy with
SpecFair ==
    /\ Init
    /\ [][CtlNextAlive]_vars
    /\ WF_vars(CtlSteps)
    /\ \A p \in Pids : WF_vars(ChildTake(p)) /\ WF_vars(ChildDone(p))

\* the controller with its signal handler and its exit path
SpecShut == Init /\ [][ShutNext]_vars

\* one worker's data socket
SpecFrame == Init /\ [][FrameNext]_vars

\* one worker's main loop
SpecRun == Init /\ [][RunNext]_vars

SpecFork == Init /\ [][ForkNext]_vars
SpecSes == Init /\ [][SesNext]_vars

SpecApp == Init /\ [][AppNext]_vars

SpecHttp == Init /\ [][HttpNext]_vars

\* the codec is run once on each value of JsonValues
JsonSpecInit ==
    /\ CtlInit /\ SesInit /\ AppInit /\ HttpInit /\ ConnInit /\ KeepInit
    /\ ShutInit /\ FrameInit /\ ForkInit /\ RunInit
    /\ jPc = "value"
    /\ jValue \in JsonValues
    /\ jWire = JNull
    /\ jOut = JNull
SpecJson == JsonSpecInit /\ [][JsonNext]_vars

SpecConn == Init /\ [][ConnNext]_vars

\* connect runs in the calling process: its wait loop is scheduled
SpecConnFair == SpecConn /\ WF_vars(ConnWaits)

SpecKeep == Init /\ [][KeepNext]_vars

\* the worker runs its loop and the client reads what it is sent
SpecKeepFair == SpecKeep /\ WF_vars(KeepWaits) /\ WF_vars(KeepClientRecv)

====
